---- MODULE Spec2Model ----
(***************************************************************************)
(* A model of the text-manipulation tool `t`: the hierarchical value       *)
(* model, the operators Split, Columnate and DedupeWithCounts, and the     *)
(* sequential execution of a compiled programme by the command line front  *)
(* end and by the interactive preview.                                     *)
(*                                                                         *)
(* A text is a sequence of characters, each character a one-character      *)
(* string.  A Value is a record tagged by `kind`.                          *)
(***************************************************************************)
EXTENDS Integers, Sequences, FiniteSets, TLC

VARIABLES
    input,      \* the value handed to an operator / the loaded input array
    op,         \* the operator last applied to `input` ("none" before)
    output,     \* Result of the last operator application
    caller,     \* who drives the execution: "main", "try_execute" or "none"
    stage,      \* the caller's position
    ops,        \* the compiled transforms
    ctx,        \* the root Value owned by the Context
    pc,         \* number of transforms of `ops` applied successfully
    state,      \* execution state: "Idle", "Running", "Done", "Failed"
    error,      \* the error the caller holds
    applied,    \* log of apply calls: which transform, on which value
    stdout,     \* what main has written to standard output
    stderr,     \* what main has written to standard error
    exit_code,  \* the process exit status, -1 while running
    programme,  \* the parsed programme (a sequence of ast operators)
    parse_error, \* try_execute: the error of parsing the full text
    needed_lines, \* try_execute: its argument
    batch,      \* try_execute: position in batch_sizes, 0 outside the loop
    returned,   \* what try_execute returned to the interactive loop
    source,     \* the programme text the interactive editor holds
    prefix,     \* try_execute's byte index i into the text while it looks for a prefix
    history,    \* the History: entries, index, draft
    calls,      \* the History calls made: argument, result, History before
    editor      \* the editor besides its text: cursor, flags, the last key

vars == <<input, op, output, caller, stage, ops, ctx, pc, state, error,
          applied, stdout, stderr, exit_code, programme, parse_error,
          needed_lines, batch, returned,
         source, prefix, history, calls, editor>>

\* The variables of the interactive line editor.
EditorVars == <<source, prefix, history, calls, editor>>

-----------------------------------------------------------------------------
(* Value model                                                             *)

Text(s) == [kind |-> "T", s |-> s]

Number(n) == [kind |-> "N", n |-> n]

Array(elements, level) == [kind |-> "A", elements |-> elements, level |-> level]

NoValue == [kind |-> "none"]

Ok(v) == [ok |-> TRUE, val |-> v]

Err(e) == [ok |-> FALSE, err |-> e]

Levels == {"File", "Line", "Word", "Char"}

split_into(level) ==
    CASE level = "File" -> "Line"
      [] level = "Line" -> "Word"
      [] level = "Word" -> "Char"
      [] level = "Char" -> "Char"

join_delimiter(level) ==
    CASE level = "File" -> <<"\n">>
      [] level = "Line" -> <<"\n">>
      [] level = "Word" -> <<" ">>
      [] level = "Char" -> <<>>

\* Concatenation of the texts of `parts` with `sep` between them (slice::join).
RECURSIVE join(_, _)
join(parts, sep) ==
    IF Len(parts) = 0 THEN <<>>
    ELSE IF Len(parts) = 1 THEN parts[1]
    ELSE parts[1] \o sep \o join(Tail(parts), sep)

Digit(d) ==
    CASE d = 0 -> "0" [] d = 1 -> "1" [] d = 2 -> "2" [] d = 3 -> "3"
      [] d = 4 -> "4" [] d = 5 -> "5" [] d = 6 -> "6" [] d = 7 -> "7"
      [] d = 8 -> "8" [] d = 9 -> "9"

\* Display of an f64 holding a natural number: decimal digits, no point.
RECURSIVE f64_to_string(_)
f64_to_string(n) ==
    IF n < 10 THEN <<Digit(n)>>
    ELSE f64_to_string(n \div 10) \o <<Digit(n % 10)>>

\* Display of a Value (text rendering): text itself, number in decimal,
\* array elements joined by the level's default delimiter, recursively.
RECURSIVE to_string(_)
to_string(v) ==
    CASE v.kind = "T" -> v.s
      [] v.kind = "N" -> f64_to_string(v.n)
      [] v.kind = "A" ->
            join([i \in 1..Len(v.elements) |-> to_string(v.elements[i])],
                 join_delimiter(v.level))

deep_copy(v) == v

-----------------------------------------------------------------------------
(* operators/dedupe.rs                                                     *)

\* value_to_key with a number keyed by its text alone, under the text tag.
RECURSIVE value_to_key_number_as_text(_)
value_to_key_number_as_text(value) ==
    CASE value.kind = "T" -> <<"T", ":">> \o value.s
      [] value.kind = "N" -> <<"T", ":">> \o f64_to_string(value.n)
      [] value.kind = "A" ->
            <<"A", ":", "[">>
            \o join([i \in 1..Len(value.elements) |->
                        value_to_key_number_as_text(value.elements[i])],
                    <<",">>)
            \o <<"]">>

RECURSIVE value_to_key(_)
value_to_key(value) ==
    CASE value.kind = "T" -> <<"T", ":">> \o value.s
      [] value.kind = "N" -> <<"N", ":">> \o f64_to_string(value.n)
      [] value.kind = "A" ->
            <<"A", ":", "[">>
            \o join([i \in 1..Len(value.elements) |->
                        value_to_key(value.elements[i])], <<",">>)
            \o <<"]">>

EmptyMap == [k \in {} |-> 0]

\* The body of the loop without the increment of the count of a key seen
\* before.
dedupe_step_no_increment(elements, keys, i, st) ==
    IF keys[i] \in DOMAIN st.index_map
    THEN st
    ELSE LET idx == Len(st.entries)
         IN  [index_map |-> [k \in DOMAIN st.index_map \cup {keys[i]} |->
                                IF k = keys[i] THEN idx ELSE st.index_map[k]],
              entries   |-> Append(st.entries,
                                [count |-> 1, value |-> elements[i], at |-> i])]

\* The body of the loop of dedupe_with_counts_by on element i: index_map
\* maps a key to the position of its entry, entries holds (count, first
\* element) in first-seen order (`at` is where the first element stood in
\* the input).
dedupe_step(elements, keys, i, st) ==
    IF keys[i] \in DOMAIN st.index_map
    THEN LET idx == st.index_map[keys[i]]
         IN  [st EXCEPT !.entries[idx + 1].count = @ + 1]
    ELSE LET idx == Len(st.entries)
         IN  [index_map |-> [k \in DOMAIN st.index_map \cup {keys[i]} |->
                                IF k = keys[i] THEN idx ELSE st.index_map[k]],
              entries   |-> Append(st.entries,
                                [count |-> 1, value |-> elements[i], at |-> i])]

\* The iterations lo..hi of the loop, in order, from the state st.  The
\* range is halved so that the evaluation stays shallow on long inputs; half
\* is the state after the first half, computed once before the second half
\* starts from it.
RECURSIVE dedupe_loop(_, _, _, _, _)
dedupe_loop(elements, keys, lo, hi, st) ==
    IF lo > hi THEN st
    ELSE IF lo = hi THEN dedupe_step(elements, keys, lo, st)
    ELSE LET mid == (lo + hi) \div 2
         IN  CHOOSE done \in
                 { dedupe_loop(elements, keys, mid + 1, hi, half) :
                     half \in {dedupe_loop(elements, keys, lo, mid, st)} } :
                 TRUE

\* The comparator with the counts compared the other way round.
dedupe_cmp_less_ascending(a, b) ==
    \/ a.count < b.count
    \/ (a.count = b.count /\ a.order < b.order)

\* The comparator of result.sort_by: count descending, then order ascending.
dedupe_cmp_less(a, b) ==
    \/ b.count < a.count
    \/ (b.count = a.count /\ a.order < b.order)

RECURSIVE sort_insert(_, _)
sort_insert(sorted, x) ==
    IF Len(sorted) = 0 THEN <<x>>
    ELSE IF dedupe_cmp_less(x, sorted[1]) THEN <<x>> \o sorted
    ELSE <<sorted[1]>> \o sort_insert(Tail(sorted), x)

\* A stable sort by dedupe_cmp_less (insertion after the last not-greater).
RECURSIVE sort_by(_)
sort_by(result) ==
    IF Len(result) = 0 THEN <<>>
    ELSE sort_insert(sort_by(SubSeq(result, 1, Len(result) - 1)),
                     result[Len(result)])

dedupe_row(r) == Array(<<Number(r.count), r.output>>, "Word")

\* The end of dedupe_with_counts_by: the entries become (count, order,
\* output), are sorted, and each becomes a row [count, output].
dedupe_rows(entries, output_results) ==
    LET result == [i \in 1..Len(entries) |->
                      [count  |-> entries[i].count,
                       order  |-> i - 1,
                       output |-> output_results[entries[i].at].val]]
        sorted == sort_by(result)
    IN  Ok(Array([i \in 1..Len(sorted) |-> dedupe_row(sorted[i])], "Line"))

\* dedupe_with_counts_by, given for each element the result of key_fn and
\* of output_fn on it (both closures are pure).  The entries are computed
\* once, by the loop, before the rows are made of them.
dedupe_with_counts_by(arr, key_results, output_results) ==
    LET elements == arr.elements
        failed   == {i \in 1..Len(elements) : ~key_results[i].ok}
    IN  IF failed # {}
        THEN key_results[CHOOSE i \in failed : \A j \in failed : i <= j]
        ELSE LET keys == [i \in 1..Len(elements) |-> key_results[i].val]
                 init == [index_map |-> EmptyMap, entries |-> <<>>]
             IN  CHOOSE rows \in
                     { dedupe_rows(st.entries, output_results) :
                         st \in {dedupe_loop(elements, keys, 1,
                                             Len(elements), init)} } :
                     TRUE

DedupeWithCounts_key_fn(elem) == Ok(value_to_key(elem))

DedupeWithCounts_output_fn(elem) == Ok(deep_copy(elem))

DedupeWithCounts_apply(value) ==
    IF value.kind = "A"
    THEN dedupe_with_counts_by(value,
             [i \in 1..Len(value.elements) |->
                 DedupeWithCounts_key_fn(value.elements[i])],
             [i \in 1..Len(value.elements) |->
                 DedupeWithCounts_output_fn(value.elements[i])])
    ELSE Ok(value)

\* group::extract_key for a selection of one index, on a row that holds it:
\* the element at that position (a negative index counts from the end).
extract_key_index(elem, selection) ==
    LET idx == selection.items[1].idx
    IN  IF idx < 0 THEN Len(elem.elements) + idx ELSE idx

extract_key_defined(elem, selection) ==
    /\ elem.kind = "A"
    /\ Len(selection.items) = 1
    /\ selection.items[1].item = "Index"
    /\ extract_key_index(elem, selection) \in 0..(Len(elem.elements) - 1)

extract_key(elem, selection) ==
    Ok(deep_copy(elem.elements[extract_key_index(elem, selection) + 1]))

DedupeSelectionWithCounts_key_fn(selection, elem) ==
    LET extracted == extract_key(elem, selection)
    IN  IF extracted.ok THEN Ok(value_to_key(extracted.val)) ELSE extracted

DedupeSelectionWithCounts_output_fn(selection, elem) ==
    extract_key(elem, selection)

DedupeSelectionWithCounts_apply(selection, value) ==
    IF value.kind = "A"
    THEN dedupe_with_counts_by(value,
             [i \in 1..Len(value.elements) |->
                 DedupeSelectionWithCounts_key_fn(selection, value.elements[i])],
             [i \in 1..Len(value.elements) |->
                 DedupeSelectionWithCounts_output_fn(selection,
                                                     value.elements[i])])
    ELSE Ok(value)

-----------------------------------------------------------------------------
(* operators/columnate.rs                                                  *)

\* Bytes of the UTF-8 encoding of a character of the model's alphabet.
utf8_len_char(c) == IF c = "é" THEN 2 ELSE 1

RECURSIVE str_len(_)
str_len(s) == IF Len(s) = 0 THEN 0 ELSE utf8_len_char(s[1]) + str_len(Tail(s))

\* cell.chars().count()
chars_count(cell) == Len(cell)

RECURSIVE repeat(_, _)
repeat(c, n) == IF n <= 0 THEN <<>> ELSE <<c>> \o repeat(c, n - 1)

saturating_sub(a, b) == IF a >= b THEN a - b ELSE 0

RECURSIVE max_of(_)
max_of(S) ==
    IF S = {} THEN 0
    ELSE LET x == CHOOSE y \in S : TRUE
             m == max_of(S \ {x})
         IN  IF x > m THEN x ELSE m

\* The width of a cell counted in bytes instead of characters.
columnate_cell_width_bytes(cell) == str_len(cell)

columnate_cell_width(cell) == chars_count(cell)

\* rows: the text of every cell of every row; a row that is no array is
\* one cell.
columnate_rows(arr) ==
    [r \in 1..Len(arr.elements) |->
        LET row == arr.elements[r]
        IN  IF row.kind = "A"
            THEN [i \in 1..Len(row.elements) |-> to_string(row.elements[i])]
            ELSE <<to_string(row)>>]

columnate_max_cols(rows) == max_of({Len(rows[r]) : r \in 1..Len(rows)})

\* col_widths[i] (i from 0 in the code, from 1 here): the widest cell at
\* column i over all rows.
columnate_col_widths(rows) ==
    [i \in 1..columnate_max_cols(rows) |->
        max_of({columnate_cell_width(rows[r][i]) :
                   r \in {q \in 1..Len(rows) : i <= Len(rows[q])}})]

\* A row padded like every other, and filled up with empty cells to the
\* number of columns of the widest row.
columnate_pad_row_fill(row, col_widths) ==
    Array([i \in 1..Len(col_widths) |->
              IF i > Len(row) THEN Text(<<>>)
              ELSE IF i = Len(col_widths) THEN Text(row[i])
              ELSE Text(row[i] \o repeat(" ",
                       saturating_sub(col_widths[i],
                                      columnate_cell_width(row[i]))))],
          "Word")

columnate_pad_row(row, col_widths) ==
    LET last_idx == saturating_sub(Len(row), 1)
    IN  Array([i \in 1..Len(row) |->
                  IF i - 1 = last_idx THEN Text(row[i])
                  ELSE LET width   == IF i <= Len(col_widths)
                                      THEN col_widths[i] ELSE 0
                           padding == saturating_sub(width,
                                          columnate_cell_width(row[i]))
                       IN  Text(row[i] \o repeat(" ", padding))],
              "Word")

Columnate_apply(value) ==
    IF value.kind = "A"
    THEN LET rows == columnate_rows(value)
         IN  IF Len(rows) = 0 THEN Ok(value)
             ELSE LET col_widths == columnate_col_widths(rows)
                  IN  Ok(Array([r \in 1..Len(rows) |->
                                   columnate_pad_row(rows[r], col_widths)],
                               value.level))
    ELSE Ok(value)

-----------------------------------------------------------------------------
(* operators/split.rs                                                      *)

Whitespace == [mode |-> "Whitespace"]

Delimiter(delim) == [mode |-> "Delimiter", delim |-> delim]

Csv == [mode |-> "Csv"]

\* char::is_whitespace on the characters of the model's alphabet.
is_whitespace(c) == c \in {" ", "\t", "\n", "\r"}

\* The first position at or after `from` where `pat` occurs in s, 0 if none.
find_from(s, pat, from) ==
    LET hits == {p \in from..(Len(s) - Len(pat) + 1) :
                    SubSeq(s, p, p + Len(pat) - 1) = pat}
    IN  IF hits = {} THEN 0 ELSE CHOOSE p \in hits : \A q \in hits : p <= q

\* str::lines: the lines ended by "\n" or "\r\n"; the last line needs no
\* line ending, and an empty text has no line.
RECURSIVE lines(_)
lines(s) ==
    IF Len(s) = 0 THEN <<>>
    ELSE LET p == find_from(s, <<"\n">>, 1)
         IN  IF p = 0 THEN <<s>>
             ELSE LET line == SubSeq(s, 1, p - 1)
                      bare == IF Len(line) > 0 /\ line[Len(line)] = "\r"
                              THEN SubSeq(line, 1, Len(line) - 1)
                              ELSE line
                  IN  <<bare>> \o lines(SubSeq(s, p + 1, Len(s)))

\* str::split_whitespace: the maximal runs of characters that are not
\* whitespace.
RECURSIVE split_whitespace(_)
split_whitespace(s) ==
    LET blank == {p \in 1..Len(s) : is_whitespace(s[p])}
        solid == (1..Len(s)) \ blank
    IN  IF solid = {} THEN <<>>
        ELSE LET start == CHOOSE p \in solid : \A q \in solid : p <= q
                 after == {p \in blank : p > start}
                 stop  == IF after = {} THEN Len(s) + 1
                          ELSE CHOOSE p \in after : \A q \in after : p <= q
             IN  <<SubSeq(s, start, stop - 1)>>
                 \o split_whitespace(SubSeq(s, stop, Len(s)))

\* str_split_nonempty leaving out the empty parts.
RECURSIVE str_split_nonempty_skip_empty(_, _)
str_split_nonempty_skip_empty(s, delim) ==
    LET p == find_from(s, delim, 1)
    IN  IF p = 0 THEN (IF Len(s) = 0 THEN <<>> ELSE <<s>>)
        ELSE (IF p = 1 THEN <<>> ELSE <<SubSeq(s, 1, p - 1)>>)
             \o str_split_nonempty_skip_empty(
                    SubSeq(s, p + Len(delim), Len(s)), delim)

\* str::split on a pattern that is not empty: the parts between successive
\* occurrences of the pattern that do not overlap, from the left.
RECURSIVE str_split_nonempty(_, _)
str_split_nonempty(s, delim) ==
    LET p == find_from(s, delim, 1)
    IN  IF p = 0 THEN <<s>>
        ELSE <<SubSeq(s, 1, p - 1)>>
             \o str_split_nonempty(SubSeq(s, p + Len(delim), Len(s)), delim)

\* str::split: an empty pattern matches at every character boundary, so it
\* gives an empty part, every character, and an empty part.
str_split(s, delim) ==
    IF Len(delim) = 0
    THEN <<(<<>>)>> \o [i \in 1..Len(s) |-> <<s[i]>>] \o <<(<<>>)>>
    ELSE str_split_nonempty(s, delim)

\* The first record the csv reader gives for a text without quotes: empty
\* lines are skipped, the record ends at the line ending, the fields are
\* the parts between commas; there is no record in a text of line endings
\* only.
RECURSIVE csv_first_record(_)
csv_first_record(s) ==
    IF Len(s) = 0 THEN <<>>
    ELSE IF s[1] \in {"\n", "\r"} THEN csv_first_record(Tail(s))
    ELSE LET ends == {p \in 1..Len(s) : s[p] \in {"\n", "\r"}}
             stop == IF ends = {} THEN Len(s) + 1
                     ELSE CHOOSE p \in ends : \A q \in ends : p <= q
         IN  str_split_nonempty(SubSeq(s, 1, stop - 1), <<",">>)

TextsOf(parts) == [i \in 1..Len(parts) |-> Text(parts[i])]

\* split_line splitting on whitespace in Delimiter mode too.
split_line_always_whitespace(s, mode) ==
    CASE mode.mode = "Whitespace" -> TextsOf(split_whitespace(s))
      [] mode.mode = "Delimiter"  -> TextsOf(split_whitespace(s))
      [] mode.mode = "Csv"        -> TextsOf(csv_first_record(s))

split_line(s, mode) ==
    CASE mode.mode = "Whitespace" -> TextsOf(split_whitespace(s))
      [] mode.mode = "Delimiter"  -> TextsOf(str_split(s, mode.delim))
      [] mode.mode = "Csv"        -> TextsOf(csv_first_record(s))

\* split_text that tags the new array with the level it was given.
split_text_same_level(s, level, mode) ==
    LET elements ==
            CASE level = "File" -> TextsOf(lines(s))
              [] level = "Line" -> split_line(s, mode)
              [] level = "Word" -> [i \in 1..Len(s) |-> Text(<<s[i]>>)]
              [] level = "Char" -> <<Text(s)>>
    IN  Array(elements, level)

split_text(s, level, mode) ==
    LET new_level == split_into(level)
        elements  ==
            CASE level = "File" -> TextsOf(lines(s))
              [] level = "Line" -> split_line(s, mode)
              [] level = "Word" -> [i \in 1..Len(s) |-> Text(<<s[i]>>)]
              [] level = "Char" -> <<Text(s)>>
    IN  Array(elements, new_level)

\* apply_to_element going one level into an array element.
Split_apply_to_element_recursing(mode, value, level) ==
    CASE value.kind = "A" ->
            Ok(Array([k \in 1..Len(value.elements) |->
                         IF value.elements[k].kind = "T"
                         THEN split_text(value.elements[k].s, value.level, mode)
                         ELSE value.elements[k]],
                     value.level))
      [] value.kind = "T" -> Ok(split_text(value.s, level, mode))
      [] value.kind = "N" -> Ok(Number(value.n))

Split_apply_to_element(mode, value, level) ==
    CASE value.kind = "A" -> Ok(value)
      [] value.kind = "T" -> Ok(split_text(value.s, level, mode))
      [] value.kind = "N" -> Ok(Number(value.n))

Split_apply(mode, value) ==
    CASE value.kind = "A" ->
            LET elem_level == value.level
            IN  Ok(Array([i \in 1..Len(value.elements) |->
                             Split_apply_to_element(mode, value.elements[i],
                                                    elem_level).val],
                         value.level))
      [] value.kind = "T" -> Ok(split_text(value.s, "Word", mode))
      [] OTHER -> Ok(value)

\* SplitDelim::apply that does not go into the arrays inside an array.
SplitDelim_apply_shallow(delimiter, value) ==
    CASE value.kind = "A" ->
            Ok(Array([i \in 1..Len(value.elements) |->
                         IF value.elements[i].kind = "T"
                         THEN Array(TextsOf(str_split(value.elements[i].s,
                                                      delimiter)), "Word")
                         ELSE value.elements[i]],
                     value.level))
      [] value.kind = "T" ->
            Ok(Array(TextsOf(str_split(value.s, delimiter)), "Word"))
      [] value.kind = "N" -> Ok(Number(value.n))

\* SplitDelim::apply: an array keeps its level and has apply mapped over
\* its elements; a text becomes the Word-level array of its parts; a number
\* stays.
RECURSIVE SplitDelim_apply(_, _)
SplitDelim_apply(delimiter, value) ==
    CASE value.kind = "A" ->
            Ok(Array([i \in 1..Len(value.elements) |->
                         SplitDelim_apply(delimiter, value.elements[i]).val],
                     value.level))
      [] value.kind = "T" ->
            LET parts == TextsOf(str_split(value.s, delimiter))
            IN  Ok(Array(parts, "Word"))
      [] value.kind = "N" -> Ok(Number(value.n))

\* Join (`j`): each element that is an array becomes the text of its
\* elements joined by the default delimiter of its own level; the other
\* elements and the level of the containing array stay.
Join_apply(value) ==
    Ok(Array([i \in 1..Len(value.elements) |->
                 LET e == value.elements[i]
                 IN  IF e.kind = "A"
                     THEN Text(join([k \in 1..Len(e.elements) |->
                                        to_string(e.elements[k])],
                                    join_delimiter(e.level)))
                     ELSE e],
             value.level))

\* char::to_lowercase on the characters of the model's alphabet.
to_lowercase(c) ==
    CASE c = "B" -> "b"
      [] c = "T" -> "t"
      [] OTHER   -> c

\* Lowercase (`l`): every leaf text in lowercase.
RECURSIVE Lowercase_apply_to(_)
Lowercase_apply_to(value) ==
    CASE value.kind = "T" ->
            Text([i \in 1..Len(value.s) |-> to_lowercase(value.s[i])])
      [] value.kind = "N" -> value
      [] value.kind = "A" ->
            Array([i \in 1..Len(value.elements) |->
                      Lowercase_apply_to(value.elements[i])], value.level)

Lowercase_apply(value) == Ok(Lowercase_apply_to(value))

\* The characters of the model's alphabet in the order of their scalar
\* values.
CharOrder ==
    <<" ", "B", "T", "a", "b", "c", "e", "f", "h", "i", "k", "n", "o", "q",
      "r", "t", "u", "w", "x">>

char_code(c) == CHOOSE i \in 1..Len(CharOrder) : CharOrder[i] = c

kind_ordinal(value) ==
    CASE value.kind = "T" -> 0
      [] value.kind = "N" -> 1
      [] value.kind = "A" -> 2

\* The order of two sequences, element by element with cmp, a proper
\* prefix first: -1, 0 or 1.
RECURSIVE cmp_lexicographic(_, _, _)
cmp_lexicographic(a, b, cmp) ==
    IF Len(a) = 0 /\ Len(b) = 0 THEN 0
    ELSE IF Len(a) = 0 THEN -1
    ELSE IF Len(b) = 0 THEN 1
    ELSE IF cmp[<<a[1], b[1]>>] # 0 THEN cmp[<<a[1], b[1]>>]
    ELSE cmp_lexicographic(Tail(a), Tail(b), cmp)

cmp_int(a, b) == IF a < b THEN -1 ELSE IF a > b THEN 1 ELSE 0

\* The total order of Sort: the kind first, then numbers by value, texts
\* by their characters, arrays by their elements.
RECURSIVE compare_values(_, _)
compare_values(a, b) ==
    IF kind_ordinal(a) # kind_ordinal(b)
    THEN cmp_int(kind_ordinal(a), kind_ordinal(b))
    ELSE CASE a.kind = "N" -> cmp_int(a.n, b.n)
           [] a.kind = "T" ->
                 cmp_lexicographic(
                     a.s, b.s,
                     [p \in {<<a.s[i], b.s[j]>> :
                                i \in 1..Len(a.s), j \in 1..Len(b.s)} |->
                         cmp_int(char_code(p[1]), char_code(p[2]))])
           [] a.kind = "A" ->
                 cmp_lexicographic(
                     a.elements, b.elements,
                     [p \in {<<a.elements[i], b.elements[j]>> :
                                i \in 1..Len(a.elements),
                                j \in 1..Len(b.elements)} |->
                         compare_values(p[1], p[2])])

\* A stable sort of the elements, greatest first.
RECURSIVE sort_descending(_)
sort_descending(elements) ==
    IF Len(elements) = 0 THEN <<>>
    ELSE LET rest == sort_descending(Tail(elements))
             x    == elements[1]
             k    == Cardinality({i \in 1..Len(rest) :
                                     compare_values(rest[i], x) > 0})
         IN  SubSeq(rest, 1, k) \o <<x>> \o SubSeq(rest, k + 1, Len(rest))

\* Sort descending (`o`): the elements of the array, greatest first.
SortDescending_apply(value) ==
    IF value.kind = "A"
    THEN Ok(Array(sort_descending(value.elements), value.level))
    ELSE Ok(value)

\* The bare selection `:end`: the elements before position end, the end
\* clamped to the length.
SelectSliceTo_apply(end, value) ==
    IF value.kind = "A"
    THEN Ok(Array(SubSeq(value.elements, 1,
                         IF end < Len(value.elements) THEN end
                         ELSE Len(value.elements)), value.level))
    ELSE Ok(value)

\* Filter (`/pat/`) for a pattern of literal characters: the rows whose
\* text holds the pattern are kept; a value that is not an array stays.
Filter_apply(pat, value) ==
    IF value.kind = "A"
    THEN Ok(Array(SelectSeq(value.elements,
                            LAMBDA e : find_from(to_string(e), pat, 1) # 0),
                  value.level))
    ELSE Ok(value)

-----------------------------------------------------------------------------
(* The parser, for the operator forms s, d, c, ; and /pat/                 *)

\* An operator in front of the parse of the rest of the text.
parse_then(node, rest) == IF rest.ok THEN Ok(<<node>> \o rest.val) ELSE rest

usize_MAX == 2147483647

DigitChars == {"0", "1", "2", "3", "4", "5", "6", "7", "8", "9"}

DigitValue(c) == CHOOSE d \in 0..9 : Digit(d) = c

\* The number of leading decimal digits of the text.
RECURSIVE digits_prefix_len(_)
digits_prefix_len(text) ==
    IF Len(text) > 0 /\ text[1] \in DigitChars
    THEN 1 + digits_prefix_len(Tail(text))
    ELSE 0

\* The natural number written by a text of decimal digits.
RECURSIVE parse_usize(_)
parse_usize(digits) ==
    IF Len(digits) = 0 THEN 0
    ELSE 10 * parse_usize(SubSeq(digits, 1, Len(digits) - 1))
         + DigitValue(digits[Len(digits)])

\* parse_programme: the operators of the text from left to right; strict:
\* a regex literal without its closing "/" and a character that begins no
\* operator form are errors.
RECURSIVE parse_programme(_)
parse_programme(text) ==
    IF Len(text) = 0 THEN Ok(<<>>)
    ELSE LET c    == text[1]
             rest == Tail(text)
         IN  CASE c = "s" -> parse_then([node |-> "Split", mode |-> Whitespace],
                                        parse_programme(rest))
               [] c = "d" -> parse_then([node |-> "DedupeWithCounts"],
                                        parse_programme(rest))
               [] c = "c" -> parse_then([node |-> "Columnate"],
                                        parse_programme(rest))
               [] c = ";" -> parse_then([node |-> "NoOp"],
                                        parse_programme(rest))
               [] c = "j" -> parse_then([node |-> "Join"],
                                        parse_programme(rest))
               [] c = "l" -> parse_then([node |-> "Lowercase"],
                                        parse_programme(rest))
               [] c = "o" -> parse_then([node |-> "SortDescending"],
                                        parse_programme(rest))
               [] c = ":" ->
                     LET n == digits_prefix_len(rest)
                     IN  parse_then(
                             [node |-> "Select",
                              end  |-> IF n = 0 THEN usize_MAX
                                       ELSE parse_usize(SubSeq(rest, 1, n))],
                             parse_programme(SubSeq(rest, n + 1, Len(rest))))
               [] c = "/" ->
                     LET close == find_from(rest, <<"/">>, 1)
                     IN  IF close = 0 THEN Err("unterminated regex")
                         ELSE parse_then(
                                  [node |-> "Filter",
                                   pat  |-> SubSeq(rest, 1, close - 1)],
                                  parse_programme(
                                      SubSeq(rest, close + 1, Len(rest))))
               [] OTHER   -> Err("unexpected character")

\* str::is_char_boundary: byte index i is where a character of the text
\* starts, or the end of the text.
is_char_boundary(text, i) ==
    \E k \in 0..Len(text) : str_len(SubSeq(text, 1, k)) = i

\* &text[..i] for a byte index i on a character boundary.
str_slice_to(text, i) ==
    SubSeq(text, 1, CHOOSE k \in 0..Len(text) :
                        str_len(SubSeq(text, 1, k)) = i)

-----------------------------------------------------------------------------
(* operators/noop.rs, and the interpreter: compile, Context, run           *)

NoOp_apply(value) == Ok(value)

\* A transform whose apply fails with the runtime error e.
Failing(e) == [name |-> "fail", err |-> e]

\* Transform::apply of a compiled transform.
Transform_apply(t, value) ==
    CASE t.name = "s"    -> Split_apply(t.mode, value)
      [] t.name = "d"    -> DedupeWithCounts_apply(value)
      [] t.name = "c"    -> Columnate_apply(value)
      [] t.name = ";"    -> NoOp_apply(value)
      [] t.name = "@"    -> Ok(value)
      [] t.name = "/"    -> Filter_apply(t.pat, value)
      [] t.name = "j"    -> Join_apply(value)
      [] t.name = "l"    -> Lowercase_apply(value)
      [] t.name = "o"    -> SortDescending_apply(value)
      [] t.name = ":"    -> SelectSliceTo_apply(t.end, value)
      [] t.name = "fail" -> Err(t.err)

\* Transform::requires_full_input: true for the dedupe operators and
\* Columnate, which override it, and for sort.
requires_full_input(t) == t.name \in {"d", "D", "c", "o"}

\* compile of one ast operator: the transform of the same form.
compile_op(node) ==
    CASE node.node = "Split"            -> [name |-> "s", mode |-> node.mode]
      [] node.node = "DedupeWithCounts" -> [name |-> "d"]
      [] node.node = "Columnate"        -> [name |-> "c"]
      [] node.node = "NoOp"             -> [name |-> ";"]
      [] node.node = "Descend"          -> [name |-> "@"]
      [] node.node = "Filter"           -> [name |-> "/", pat |-> node.pat]
      [] node.node = "Join"             -> [name |-> "j"]
      [] node.node = "Lowercase"        -> [name |-> "l"]
      [] node.node = "SortDescending"   -> [name |-> "o"]
      [] node.node = "Select"           -> [name |-> ":", end |-> node.end]
      [] node.node = "Failing"          -> Failing(node.err)

\* compile: one transform per operator of the programme, in its order.
compile(prog) == [i \in 1..Len(prog) |-> compile_op(prog[i])]

\* run on its own: the transforms applied in order from position i on;
\* the final value, or the first error.
RECURSIVE run_from(_, _, _)
run_from(transforms, i, value) ==
    IF i > Len(transforms) THEN Ok(value)
    ELSE LET result == Transform_apply(transforms[i], value)
         IN  IF result.ok THEN run_from(transforms, i + 1, result.val)
             ELSE result

\* A programme text parsed, compiled and run over a value, main's way.
run_programme_text(text, value) ==
    LET parsed == parse_programme(text)
    IN  IF parsed.ok THEN run_from(compile(parsed.val), 1, value)
        ELSE parsed

Context_new(value) == value

into_value(context) == context

truncated_copy(arr, n) ==
    Array(SubSeq(arr.elements, 1, IF n < Len(arr.elements) THEN n
                                  ELSE Len(arr.elements)), arr.level)

\* run, one transform at a time: the next transform succeeds and its result
\* replaces the root.
RunStepOk ==
    /\ state = "Running"
    /\ pc < Len(ops)
    /\ LET result == Transform_apply(ops[pc + 1], ctx)
       IN  /\ result.ok
           /\ ctx' = result.val
    /\ pc' = pc + 1
    /\ applied' = Append(applied, [index |-> pc + 1, arg |-> ctx])
    /\ UNCHANGED <<input, op, output, caller, stage, ops, state, error,
                   stdout, stderr, exit_code, programme, parse_error,
                   needed_lines, EditorVars, batch, returned>>

\* run: the next transform fails; run stops and returns its error, the
\* root stays the last successful result.
RunStepErr ==
    /\ state = "Running"
    /\ pc < Len(ops)
    /\ LET result == Transform_apply(ops[pc + 1], ctx)
       IN  /\ ~result.ok
           /\ error' = result.err
    /\ state' = "Failed"
    /\ applied' = Append(applied, [index |-> pc + 1, arg |-> ctx])
    /\ UNCHANGED <<input, op, output, caller, stage, ops, ctx, pc,
                   stdout, stderr, exit_code, programme, parse_error,
                   needed_lines, EditorVars, batch, returned>>

\* run: every transform has been applied; run returns Ok.
RunReturnOk ==
    /\ state = "Running"
    /\ pc = Len(ops)
    /\ state' = "Done"
    /\ UNCHANGED <<input, op, output, caller, stage, ops, ctx, pc, error,
                   applied, stdout, stderr, exit_code, programme,
                   parse_error, needed_lines, EditorVars, batch, returned>>

-----------------------------------------------------------------------------
(* interactive/history.rs: History                                         *)

None == [some |-> FALSE]

Some(v) == [some |-> TRUE, v |-> v]

\* str::trim_start and str::trim: without the leading, and the leading and
\* trailing, whitespace.
RECURSIVE trim_start(_)
trim_start(s) ==
    IF Len(s) > 0 /\ is_whitespace(s[1]) THEN trim_start(Tail(s)) ELSE s

RECURSIVE trim(_)
trim(s) ==
    IF Len(s) > 0 /\ is_whitespace(s[Len(s)])
    THEN trim(SubSeq(s, 1, Len(s) - 1))
    ELSE trim_start(s)

\* History::add pushing the trimmed programme whenever it is not empty.
History_add_always(h, text) ==
    IF Len(trim(text)) = 0 THEN h
    ELSE [h EXCEPT !.entries = Append(h.entries, trim(text))]

\* History::add: the History afterwards.
History_add(h, text) ==
    LET t == trim(text)
    IN  IF Len(t) = 0 THEN h
        ELSE IF Len(h.entries) = 0 \/ h.entries[Len(h.entries)] # t
             THEN [h EXCEPT !.entries = Append(h.entries, t)]
             ELSE h

\* History::up storing the draft at every call.
History_up_redraft(h, current) ==
    IF Len(h.entries) = 0 THEN [h |-> h, ret |-> None]
    ELSE IF ~h.index.some
         THEN [h   |-> [h EXCEPT !.draft = current,
                                 !.index = Some(Len(h.entries) - 1)],
               ret |-> Some(h.entries[Len(h.entries)])]
         ELSE IF h.index.v = 0 THEN [h |-> h, ret |-> None]
         ELSE [h   |-> [h EXCEPT !.draft = current,
                                 !.index = Some(h.index.v - 1)],
               ret |-> Some(h.entries[h.index.v])]

\* History::up going round to the newest entry from the oldest.
History_up_wrapping(h, current) ==
    IF Len(h.entries) = 0 THEN [h |-> h, ret |-> None]
    ELSE IF ~h.index.some \/ h.index.v = 0
         THEN [h   |-> [h EXCEPT !.draft = IF h.index.some THEN h.draft
                                           ELSE current,
                                 !.index = Some(Len(h.entries) - 1)],
               ret |-> Some(h.entries[Len(h.entries)])]
         ELSE [h   |-> [h EXCEPT !.index = Some(h.index.v - 1)],
               ret |-> Some(h.entries[h.index.v])]

\* History::up: the History afterwards and what is returned. Entry i of
\* the Vec is entries[i + 1].
History_up(h, current) ==
    IF Len(h.entries) = 0 THEN [h |-> h, ret |-> None]
    ELSE IF ~h.index.some
         THEN [h   |-> [h EXCEPT !.draft = current,
                                 !.index = Some(Len(h.entries) - 1)],
               ret |-> Some(h.entries[Len(h.entries)])]
         ELSE IF h.index.v = 0 THEN [h |-> h, ret |-> None]
         ELSE [h   |-> [h EXCEPT !.index = Some(h.index.v - 1)],
               ret |-> Some(h.entries[h.index.v])]

\* History::down: the History afterwards and what is returned.
History_down(h, current) ==
    IF ~h.index.some THEN [h |-> h, ret |-> None]
    ELSE IF h.index.v + 1 >= Len(h.entries)
         THEN [h |-> [h EXCEPT !.index = None], ret |-> Some(h.draft)]
         ELSE [h   |-> [h EXCEPT !.index = Some(h.index.v + 1)],
               ret |-> Some(h.entries[h.index.v + 2])]

\* History::reset
History_reset(h) == [h EXCEPT !.index = None, !.draft = <<>>]

-----------------------------------------------------------------------------
(* interactive.rs: the keys of the line editor                             *)

\* A key event: its code, the character of a Char code, and whether the
\* modifiers are CONTROL (otherwise NONE or SHIFT).
Key(code, c, control) == [code |-> code, c |-> c, control |-> control]

\* InteractiveMode::new, besides the input and the programme text: the
\* cursor (a byte index), the flags, and no key handled yet.
Editor_new ==
    [cursor |-> 0, json_output |-> FALSE, show_help |-> FALSE,
     session |-> "running", last |-> None]

\* The number of characters of the text before byte index idx, idx on a
\* character boundary.
chars_before(text, idx) ==
    CHOOSE k \in 0..Len(text) : str_len(SubSeq(text, 1, k)) = idx

\* String::insert: panics unless idx is on a character boundary.
String_insert(text, idx, c) ==
    IF ~is_char_boundary(text, idx) THEN [panic |-> TRUE]
    ELSE LET k == chars_before(text, idx)
         IN  [panic |-> FALSE,
              text  |-> SubSeq(text, 1, k) \o <<c>>
                        \o SubSeq(text, k + 1, Len(text))]

\* String::remove: the character at byte index idx is taken out; panics
\* when idx is at or past the end or not on a character boundary.
String_remove(text, idx) ==
    IF idx >= str_len(text) \/ ~is_char_boundary(text, idx)
    THEN [panic |-> TRUE]
    ELSE LET k == chars_before(text, idx)
         IN  [panic |-> FALSE,
              text  |-> SubSeq(text, 1, k) \o SubSeq(text, k + 2, Len(text))]

\* What a key does to the text and the editor: the KeyAction returned, or
\* "Panic".
KeyResult(text, ed, action) == [text |-> text, ed |-> ed, action |-> action]

\* The match of handle_key on (key.code, key.modifiers).
handle_key_match(text, ed, key) ==
    CASE (key.code = "Char" /\ key.c = "c" /\ key.control)
         \/ key.code = "Esc" ->
            KeyResult(text, ed, "Cancel")
      [] key.code = "Char" /\ key.c = "d" /\ key.control ->
            KeyResult(text, ed, IF Len(text) = 0 THEN "Cancel" ELSE "Continue")
      [] key.code = "Char" /\ key.c = "j" /\ key.control ->
            KeyResult(text, [ed EXCEPT !.json_output = ~ed.json_output],
                      "Continue")
      [] key.code = "Char" /\ key.c = "h" /\ key.control ->
            KeyResult(text, [ed EXCEPT !.show_help = TRUE], "Continue")
      [] key.code = "Enter" -> KeyResult(text, ed, "Commit")
      [] key.code = "Backspace" ->
            IF ed.cursor > 0
            THEN LET r == String_remove(text, ed.cursor - 1)
                 IN  IF r.panic THEN KeyResult(text, ed, "Panic")
                     ELSE KeyResult(r.text,
                                    [ed EXCEPT !.cursor = ed.cursor - 1],
                                    "Continue")
            ELSE KeyResult(text, ed, "Continue")
      [] key.code = "Delete" ->
            IF ed.cursor < str_len(text)
            THEN LET r == String_remove(text, ed.cursor)
                 IN  IF r.panic THEN KeyResult(text, ed, "Panic")
                     ELSE KeyResult(r.text, ed, "Continue")
            ELSE KeyResult(text, ed, "Continue")
      [] key.code = "Left" ->
            KeyResult(text,
                      [ed EXCEPT !.cursor = IF ed.cursor > 0
                                            THEN ed.cursor - 1 ELSE ed.cursor],
                      "Continue")
      [] key.code = "Right" ->
            KeyResult(text,
                      [ed EXCEPT !.cursor = IF ed.cursor < str_len(text)
                                            THEN ed.cursor + 1 ELSE ed.cursor],
                      "Continue")
      [] key.code = "Home" ->
            KeyResult(text, [ed EXCEPT !.cursor = 0], "Continue")
      [] key.code = "End" ->
            KeyResult(text, [ed EXCEPT !.cursor = str_len(text)], "Continue")
      [] key.code = "Char" /\ ~key.control ->
            LET r == String_insert(text, ed.cursor, key.c)
            IN  IF r.panic THEN KeyResult(text, ed, "Panic")
                ELSE KeyResult(r.text, [ed EXCEPT !.cursor = ed.cursor + 1],
                               "Continue")
      [] OTHER -> KeyResult(text, ed, "Continue")

\* handle_key returning at once for every key while the help is shown.
handle_key_help_swallows(text, ed, key) ==
    IF ed.show_help
    THEN KeyResult(text, [ed EXCEPT !.show_help = FALSE], "Continue")
    ELSE handle_key_match(text, ed, key)

\* handle_key: Esc only dismisses the help; every other key dismisses it
\* and goes on to the match.
handle_key(text, ed, key) ==
    IF ed.show_help
    THEN IF key.code = "Esc"
         THEN KeyResult(text, [ed EXCEPT !.show_help = FALSE], "Continue")
         ELSE handle_key_match(text, [ed EXCEPT !.show_help = FALSE], key)
    ELSE handle_key_match(text, ed, key)

-----------------------------------------------------------------------------
(* Bounds and input pools                                                  *)

MaxLen == 3

MaxRows == 2

MaxCols == 2

MaxSplitLen == 2

MaxOps == 3

LongInput == 101

Index(i) == [item |-> "Index", idx |-> i]

Selection(items) == [items |-> items]

NoneApplied == [name |-> "none"]

Range(f) == {f[i] : i \in DOMAIN f}

\* All sequences over S of length at most n.
SeqUpTo(S, n) == UNION {[1..k -> S] : k \in 0..n}

\* Elements given to the dedupe operators: texts, numbers, arrays of texts
\* whose characters look like key syntax, and rows with a key column.
DedupeElems ==
    { Text(<<"a">>), Text(<<"1">>), Number(1),
      Array(<<Text(<<",", "T", ":">>)>>, "Word"),
      Array(<<Text(<<>>), Text(<<>>)>>, "Word"),
      Array(<<Text(<<"a">>), Number(1)>>, "Word"),
      Array(<<Text(<<"a">>), Number(2)>>, "Word"),
      Array(<<Array(<<Text(<<",", "T", ":">>)>>, "Word"), Number(1)>>, "Word"),
      Array(<<Array(<<Text(<<>>), Text(<<>>)>>, "Word"), Number(1)>>, "Word") }

DedupeInputs ==
    {Array(es, "Line") : es \in SeqUpTo(DedupeElems, MaxLen)}
    \cup {Text(<<"a">>), Number(1)}

DedupeSelections == {Selection(<<Index(0)>>), Selection(<<Index(-1)>>)}

\* Cells given to Columnate: texts of one and two characters (one of them
\* a character of two bytes) and an array, whose text has three.
ColumnateCells ==
    { Text(<<"é">>), Text(<<"b", "b">>),
      Array(<<Text(<<"a">>), Number(7)>>, "Word") }

ColumnateRowPool ==
    {Array(cells, "Word") : cells \in SeqUpTo(ColumnateCells, MaxCols)}
    \cup {Text(<<"b", "b">>), Number(7)}

ColumnateInputs ==
    {Array(rows, level) : rows \in SeqUpTo(ColumnateRowPool, MaxRows),
                          level \in {"Line", "Word"}}
    \cup {Array(<<>>, "File"), Text(<<"b", "b">>), Number(7)}

\* Texts given to Split: empty, words around a space, adjacent commas,
\* blanks and line endings at both ends, a character of two bytes, and a
\* line ending of carriage return and line feed.
SplitTexts ==
    { <<>>,
      <<"a", " ", "b">>,
      <<"a", ",", ",", "b">>,
      <<" ", "a", "\n", "b", "\n">>,
      <<"é", "b">>,
      <<"a", "\r", "\n", ",">> }

SplitElems ==
    {Text(t) : t \in SplitTexts}
    \cup {Number(1), Array(<<Text(<<"a", " ", "b">>)>>, "Word")}

SplitInputs ==
    {Array(es, level) : es \in SeqUpTo(SplitElems, MaxSplitLen),
                        level \in Levels}
    \cup {Text(t) : t \in SplitTexts} \cup {Number(1)}

SplitModes ==
    {Whitespace, Delimiter(<<",">>), Delimiter(<<" ">>), Delimiter(<<>>), Csv}

MaxDelimTextLen == 4

\* Texts given to SplitDelim: every text of the two characters up to the
\* bound, so that delimiters stand at the ends, side by side and overlapping.
SplitDelimTexts == SeqUpTo({"a", ","}, MaxDelimTextLen)

SplitDelimDelimiters == {<<",">>, <<"a", "a">>, <<"a", ",">>, <<>>}

\* Values given to SplitDelim: texts, a number, and arrays of some levels
\* nesting texts and numbers to a depth of three.
SplitDelimInputs ==
    {Text(t) : t \in SplitDelimTexts}
    \cup {Array(<<Text(t)>>, "Line") : t \in SplitDelimTexts}
    \cup { Number(7),
           Array(<<>>, "File"),
           Array(<<Text(<<"a", ",", "a">>), Number(7), Text(<<>>)>>, "Line"),
           Array(<<Array(<<Text(<<",", "a">>),
                           Array(<<Number(7), Text(<<"a", "a", "a">>)>>,
                                 "Char")>>, "Word"),
                   Text(<<"a", ",", ",">>)>>, "File") }

\* The operators of the programmes that are run.
AstOperators ==
    { [node |-> "Split", mode |-> Whitespace],
      [node |-> "DedupeWithCounts"],
      [node |-> "Columnate"],
      [node |-> "NoOp"],
      [node |-> "Failing", err |-> "E1"],
      [node |-> "Failing", err |-> "E2"] }

Programmes == SeqUpTo(AstOperators, MaxOps)

\* What the input loader gives: a Line-level array of the lines as texts.
LoadedInputs ==
    { Array(<<>>, "Line"),
      Array(<<Text(<<"a">>)>>, "Line"),
      Array(<<Text(<<"a", " ", "b">>), Text(<<"c">>),
              Text(<<"a", " ", "b">>)>>, "Line") }

PreviewAstOperators ==
    { [node |-> "Split", mode |-> Whitespace],
      [node |-> "DedupeWithCounts"],
      [node |-> "Columnate"],
      [node |-> "NoOp"],
      [node |-> "Descend"],
      [node |-> "Failing", err |-> "E1"] }

PreviewProgrammes == SeqUpTo(PreviewAstOperators, MaxOps)

\* The inputs of the interactive preview; one is longer than the first
\* batch.
PreviewInputs ==
    { Array(<<>>, "Line"),
      Array(<<Text(<<"a", " ", "b">>), Text(<<"c">>),
              Text(<<"a", " ", "b">>)>>, "Line"),
      Array([i \in 1..LongInput |->
                IF i % 2 = 0 THEN Text(<<"a", " ", "b">>) ELSE Text(<<"c">>)],
            "Line") }

MaxWords == 3

W_The == <<"T", "h", "e">>

W_the == <<"t", "h", "e">>

W_quick == <<"q", "u", "i", "c", "k">>

W_Brown == <<"B", "r", "o", "w", "n">>

W_fox == <<"f", "o", "x">>

\* The line of the example: "The quick the Brown fox the quick".
ExampleLine ==
    join(<<W_The, W_quick, W_the, W_Brown, W_fox, W_the, W_quick>>, <<" ">>)

\* Files of one line: the example's, and the lines of up to MaxWords of its
\* words.
ExampleInputs ==
    { Array(<<Text(line)>>, "Line") :
        line \in {ExampleLine}
                 \cup { join(ws, <<" ">>) :
                          ws \in SeqUpTo({W_The, W_the, W_quick, W_Brown,
                                          W_fox}, MaxWords) } }

\* The programme of the example, and parts of it.
ExampleProgrammes ==
    { <<"s", "j", "l", "d", "o", ":", "2", "0">>,
      <<"s", "l", "d", "o", ":", "2", "0">>,
      <<"s", "j", "l", "d">>,
      <<"d", "o", ":", "1">> }

MaxTextLen == 3

\* The programme texts typed into the editor: operators, regex literals,
\* and a character of two bytes.
ProgrammeTexts == SeqUpTo({"s", "d", ";", "/", "é"}, MaxTextLen)

MaxEntries == 2

MaxCalls == 5

\* The programmes handed to History::add: empty, blank, padded, plain.
HistoryTexts ==
    { <<>>, <<" ">>, <<"a">>, <<" ", "a", " ">>, <<"a", " ", "b">> }

\* The texts of the editor handed to up and down as `current`.
HistoryCurrents == { <<"x">>, <<"y">> }

MaxBatchOps == 2

\* Programmes in which no operator requires the full input.
BatchProgrammes ==
    SeqUpTo({ [node |-> "NoOp"], [node |-> "Split", mode |-> Whitespace],
              [node |-> "Failing", err |-> "E1"] }, MaxBatchOps)

\* Input lengths at and just past each bounded batch size, and 0.
BatchLengths == {0, 100, 101, 500, 501, 2000, 2001}

BatchInputs ==
    { Array([i \in 1..n |->
                IF i % 2 = 0 THEN Text(<<"a", " ", "b">>) ELSE Text(<<"c">>)],
            "Line") : n \in BatchLengths }

\* Numbers of lines the terminal asks for: the minimum, and one more than
\* the first and than the third batch give.
BatchNeededLines == {10, 101, 2001}

MaxDepthOps == 4

\* Programmes of descend, ascend and two operators that are neither.
DepthProgrammes ==
    SeqUpTo({ [node |-> "Descend"], [node |-> "Ascend"], [node |-> "NoOp"],
              [node |-> "Split", mode |-> Whitespace] }, MaxDepthOps)

MaxDepth == 2

\* The values shown in the preview: texts with and without line ends,
\* numbers, and the arrays given to the operators.
FormatValues ==
    { Text(t) : t \in SeqUpTo({"a", "\n"}, MaxLen) }
    \cup { Number(n) : n \in {0, 7, 12} }
    \cup SplitInputs \cup DedupeInputs
    \cup { Array(cells, "Line") : cells \in SeqUpTo(ColumnateCells, MaxDepth) }

\* The key events: every code of handle_key's match, two characters (one
\* of two bytes), the control characters it names and one it does not, and
\* a code it does not name.
Keys ==
    { Key("Esc", "", FALSE), Key("Enter", "", FALSE),
      Key("Backspace", "", FALSE), Key("Delete", "", FALSE),
      Key("Left", "", FALSE), Key("Right", "", FALSE),
      Key("Home", "", FALSE), Key("End", "", FALSE), Key("Tab", "", FALSE),
      Key("Char", "/", FALSE), Key("Char", "é", FALSE),
      Key("Char", "c", TRUE), Key("Char", "d", TRUE), Key("Char", "j", TRUE),
      Key("Char", "h", TRUE), Key("Char", "x", TRUE) }

\* The History of History::load without a history file: no entry, no
\* navigation, an empty draft.
History_new == [entries |-> <<>>, index |-> None, draft |-> <<>>]

\* The line editor before anything is typed or recalled.
EditorIdle ==
    /\ source = <<>>
    /\ prefix = 0
    /\ history = History_new
    /\ calls = <<>>
    /\ editor = Editor_new

\* The variables of the execution of a programme, while no programme runs.
RunIdle ==
    /\ caller = "none"
    /\ stage = "none"
    /\ ops = <<>>
    /\ ctx = NoValue
    /\ pc = 0
    /\ state = "Idle"
    /\ error = "none"
    /\ applied = <<>>
    /\ stdout = <<>>
    /\ stderr = <<>>
    /\ exit_code = -1
    /\ programme = <<>>
    /\ parse_error = "none"
    /\ needed_lines = 0
    /\ batch = 0
    /\ returned = NoValue
    /\ EditorIdle

RunVars == <<caller, stage, ops, ctx, pc, state, error, applied, stdout,
             stderr, exit_code, programme, parse_error, needed_lines, batch,
             returned, EditorVars>>

-----------------------------------------------------------------------------
(* The dedupe operators applied to one input                               *)

InitDedupe ==
    /\ input \in DedupeInputs
    /\ op = NoneApplied
    /\ output = NoValue
    /\ RunIdle

ApplyDedupeWithCounts ==
    /\ op = NoneApplied
    /\ op' = [name |-> "d"]
    /\ output' = DedupeWithCounts_apply(input)
    /\ UNCHANGED <<input, RunVars>>

ApplyDedupeSelectionWithCounts ==
    /\ op = NoneApplied
    /\ \E sel \in DedupeSelections :
          /\ input.kind = "A" =>
                \A i \in 1..Len(input.elements) :
                    extract_key_defined(input.elements[i], sel)
          /\ op' = [name |-> "D", selection |-> sel]
          /\ output' = DedupeSelectionWithCounts_apply(sel, input)
    /\ UNCHANGED <<input, RunVars>>

NextDedupe == ApplyDedupeWithCounts \/ ApplyDedupeSelectionWithCounts

SpecDedupe == InitDedupe /\ [][NextDedupe]_vars

-----------------------------------------------------------------------------
(* Columnate applied to one input                                          *)

InitColumnate ==
    /\ input \in ColumnateInputs
    /\ op = NoneApplied
    /\ output = NoValue
    /\ RunIdle

ApplyColumnate ==
    /\ op = NoneApplied
    /\ op' = [name |-> "c"]
    /\ output' = Columnate_apply(input)
    /\ UNCHANGED <<input, RunVars>>

NextColumnate == ApplyColumnate

SpecColumnate == InitColumnate /\ [][NextColumnate]_vars

-----------------------------------------------------------------------------
(* Split applied to one input                                              *)

InitSplit ==
    /\ input \in SplitInputs
    /\ op = NoneApplied
    /\ output = NoValue
    /\ RunIdle

ApplySplit ==
    /\ op = NoneApplied
    /\ \E mode \in SplitModes :
          /\ op' = [name |-> "s", mode |-> mode]
          /\ output' = Split_apply(mode, input)
    /\ UNCHANGED <<input, RunVars>>

\* Split applied again, in any mode, to what Split gave; op keeps the first
\* result.
ApplySplitAgain ==
    /\ op.name = "s"
    /\ output.ok
    /\ \E mode \in SplitModes :
          /\ op' = [name |-> "ss", mode |-> op.mode, again |-> mode,
                    first |-> output.val]
          /\ output' = Split_apply(mode, output.val)
    /\ UNCHANGED <<input, RunVars>>

\* Join applied to the array Split gave.
ApplyJoin ==
    /\ op.name = "s"
    /\ output.ok
    /\ output.val.kind = "A"
    /\ op' = [name |-> "sj", mode |-> op.mode, first |-> output.val]
    /\ output' = Join_apply(output.val)
    /\ UNCHANGED <<input, RunVars>>

NextSplit == ApplySplit \/ ApplySplitAgain \/ ApplyJoin

SpecSplit == InitSplit /\ [][NextSplit]_vars

-----------------------------------------------------------------------------
(* SplitDelim, and Split in Delimiter mode, applied to one input           *)

InitSplitDelim ==
    /\ input \in SplitDelimInputs
    /\ op = NoneApplied
    /\ output = NoValue
    /\ RunIdle

ApplySplitDelim ==
    /\ op = NoneApplied
    /\ \E delimiter \in SplitDelimDelimiters :
          /\ op' = [name |-> "S", delimiter |-> delimiter]
          /\ output' = SplitDelim_apply(delimiter, input)
    /\ UNCHANGED <<input, RunVars>>

\* Split in Delimiter mode on a Line-level array.
ApplySplitLineDelimiter ==
    /\ op = NoneApplied
    /\ input.kind = "A"
    /\ input.level = "Line"
    /\ \E delimiter \in SplitDelimDelimiters :
          /\ op' = [name |-> "s", mode |-> Delimiter(delimiter)]
          /\ output' = Split_apply(Delimiter(delimiter), input)
    /\ UNCHANGED <<input, RunVars>>

NextSplitDelim == ApplySplitDelim \/ ApplySplitLineDelimiter

SpecSplitDelim == InitSplitDelim /\ [][NextSplitDelim]_vars

-----------------------------------------------------------------------------
(* main.rs: the command line front end                                     *)

OpIdle == op = NoneApplied /\ output = NoValue

PreviewIdle == parse_error = "none" /\ needed_lines = 0 /\ batch = 0
               /\ returned = NoValue /\ EditorIdle

PreviewVars == <<parse_error, needed_lines, batch, returned, EditorVars>>

\* The exit status of a process that panicked.
PanicStatus == 101

Init ==
    /\ OpIdle
    /\ PreviewIdle
    /\ caller = "main"
    /\ stage = "parse"
    /\ input = NoValue
    /\ programme = <<>>
    /\ ops = <<>>
    /\ ctx = NoValue
    /\ pc = 0
    /\ state = "Idle"
    /\ error = "none"
    /\ applied = <<>>
    /\ stdout = <<>>
    /\ stderr = <<>>
    /\ exit_code = -1

\* Leaving with status 0 after a message on standard error.
MainFailStatusZero(message) ==
    /\ stderr' = Append(stderr, message)
    /\ exit_code' = 0
    /\ stage' = "exited"

\* std::process::exit(1) after a message on standard error.
MainFail(message) ==
    /\ stderr' = Append(stderr, message)
    /\ exit_code' = 1
    /\ stage' = "exited"

MainParseOk ==
    /\ caller = "main" /\ stage = "parse"
    /\ \E p \in Programmes : programme' = p
    /\ stage' = "load"
    /\ UNCHANGED <<input, op, output, caller, ops, ctx, pc, state, error,
                   applied, stdout, stderr, exit_code, PreviewVars>>

MainParseErr ==
    /\ caller = "main" /\ stage = "parse"
    /\ MainFail("parse error")
    /\ UNCHANGED <<input, op, output, caller, ops, ctx, pc, state, error,
                   applied, stdout, programme, PreviewVars>>

MainLoadOk ==
    /\ caller = "main" /\ stage = "load"
    /\ \E a \in LoadedInputs : input' = a
    /\ stage' = "compile"
    /\ UNCHANGED <<op, output, caller, ops, ctx, pc, state, error, applied,
                   stdout, stderr, exit_code, programme, PreviewVars>>

MainLoadErr ==
    /\ caller = "main" /\ stage = "load"
    /\ MainFail("Error reading input")
    /\ UNCHANGED <<input, op, output, caller, ops, ctx, pc, state, error,
                   applied, stdout, programme, PreviewVars>>

\* compile succeeds, the Context is created and run is called.
MainCompileOk ==
    /\ caller = "main" /\ stage = "compile"
    /\ ops' = compile(programme)
    /\ ctx' = Context_new(input)
    /\ state' = "Running"
    /\ stage' = "run"
    /\ UNCHANGED <<input, op, output, caller, pc, error, applied, stdout,
                   stderr, exit_code, programme, PreviewVars>>

MainCompileErr ==
    /\ caller = "main" /\ stage = "compile"
    /\ MainFail("Error: compile")
    /\ UNCHANGED <<input, op, output, caller, ops, ctx, pc, state, error,
                   applied, stdout, programme, PreviewVars>>

\* main starting the programme again after run failed.
MainRunErrRetry ==
    /\ caller = "main" /\ stage = "run"
    /\ state = "Failed"
    /\ stderr' = Append(stderr, <<"Error: ", error>>)
    /\ ctx' = Context_new(input)
    /\ pc' = 0
    /\ state' = "Running"
    /\ UNCHANGED <<input, op, output, caller, stage, ops, error, applied,
                   stdout, exit_code, programme, PreviewVars>>

MainRunErr ==
    /\ caller = "main" /\ stage = "run"
    /\ state = "Failed"
    /\ MainFail(<<"Error: ", error>>)
    /\ UNCHANGED <<input, op, output, caller, ops, ctx, pc, state, error,
                   applied, stdout, programme, PreviewVars>>

\* The value is written as JSON or as text, then a newline; main ends.
MainWrite ==
    /\ caller = "main" /\ stage = "run"
    /\ state = "Done"
    /\ \E json \in BOOLEAN :
          stdout' = stdout \o <<[json |-> json, value |-> into_value(ctx)],
                                "\n">>
    /\ exit_code' = 0
    /\ stage' = "exited"
    /\ UNCHANGED <<input, op, output, caller, ops, ctx, pc, state, error,
                   applied, stderr, programme, PreviewVars>>

\* A write to standard output fails: expect panics, the process ends with
\* the status of a panic; the value may or may not have been written, the
\* newline has not.
MainWritePanic ==
    /\ caller = "main" /\ stage = "run"
    /\ state = "Done"
    /\ \E json \in BOOLEAN :
          \/ stdout' = stdout
          \/ stdout' = Append(stdout, [json |-> json, value |-> into_value(ctx)])
    /\ stderr' = Append(stderr, "write failed")
    /\ exit_code' = PanicStatus
    /\ stage' = "exited"
    /\ UNCHANGED <<input, op, output, caller, ops, ctx, pc, state, error,
                   applied, programme, PreviewVars>>

Next ==
    \/ MainParseOk \/ MainParseErr
    \/ MainLoadOk \/ MainLoadErr
    \/ MainCompileOk \/ MainCompileErr
    \/ RunStepOk \/ RunStepErr \/ RunReturnOk
    \/ MainRunErr \/ MainWrite \/ MainWritePanic

Spec == Init /\ [][Next]_vars

\* main is one sequential thread: a step that can be taken is taken.
FairSpec == Spec /\ WF_vars(Next)

-----------------------------------------------------------------------------
(* interactive.rs: try_execute, from the parsed programme on               *)

MIN_PREVIEW_LINES == 10

PREVIEW_BATCH_SIZES == <<100, 500, 2000, usize_MAX>>

count_output_lines(value) ==
    CASE value.kind = "A" -> Len(value.elements)
      [] value.kind = "T" -> IF Len(lines(value.s)) > 1
                             THEN Len(lines(value.s)) ELSE 1
      [] value.kind = "N" -> 1

\* format_text_element: the Display of the value; the delimiter is unused.
format_text_element(value, delimiter) == to_string(value)

\* The ANSI sequences for bold on and for reset, each as one character.
AnsiBold == <<"\\x1b[1m">>

AnsiReset == <<"\\x1b[0m">>

\* format_text_element_highlighted: the first sub-element, remaining_depth
\* levels down, wrapped in bold.
RECURSIVE format_text_element_highlighted(_, _)
format_text_element_highlighted(value, remaining_depth) ==
    IF value.kind = "A" /\ Len(value.elements) > 0
    THEN LET delimiter == join_delimiter(value.level)
         IN  join([i \in 1..Len(value.elements) |->
                      IF i = 1
                      THEN IF remaining_depth > 0
                           THEN format_text_element_highlighted(
                                    value.elements[i], remaining_depth - 1)
                           ELSE AnsiBold
                                \o format_text_element(value.elements[i],
                                                       delimiter)
                                \o AnsiReset
                      ELSE format_text_element(value.elements[i], delimiter)],
                  delimiter)
    ELSE to_string(value)

\* format_text_with_depth: the lines shown for the value.
format_text_with_depth(value, depth) ==
    CASE value.kind = "A" ->
            [i \in 1..Len(value.elements) |->
                IF depth > 0 /\ i = 1
                THEN format_text_element_highlighted(value.elements[i],
                                                     depth - 1)
                ELSE format_text_element(value.elements[i],
                                         join_delimiter(value.level))]
      [] value.kind = "T" -> lines(value.s)
      [] value.kind = "N" -> <<f64_to_string(value.n)>>

\* compute_depth letting the depth go below 0 during the scan.
compute_depth_clamped_at_end(prog) ==
    LET RECURSIVE scan(_, _)
        scan(i, depth) ==
            IF i > Len(prog) THEN depth
            ELSE scan(i + 1,
                      CASE prog[i].node = "Descend" -> depth + 1
                        [] prog[i].node = "Ascend" -> depth - 1
                        [] OTHER -> depth)
    IN  IF scan(1, 0) > 0 THEN scan(1, 0) ELSE 0

compute_depth(prog) ==
    LET RECURSIVE scan(_, _)
        scan(i, depth) ==
            IF i > Len(prog) THEN depth
            ELSE scan(i + 1,
                      CASE prog[i].node = "Descend" -> depth + 1
                        [] prog[i].node = "Ascend" ->
                              IF depth - 1 > 0 THEN depth - 1 ELSE 0
                        [] OTHER -> depth)
    IN  IF scan(1, 0) > 0 THEN scan(1, 0) ELSE 0

\* The batch sizes when the adaptive batches are used for every programme.
batch_sizes_always_preview == PREVIEW_BATCH_SIZES

batch_sizes ==
    IF \E i \in 1..Len(ops) : requires_full_input(ops[i])
    THEN <<usize_MAX>>
    ELSE PREVIEW_BATCH_SIZES

InitPreview ==
    /\ OpIdle
    /\ caller = "try_execute"
    /\ stage = "compile"
    /\ input \in PreviewInputs
    /\ programme \in PreviewProgrammes
    /\ parse_error \in {"none", "parse error"}
    /\ needed_lines \in {MIN_PREVIEW_LINES, 2 * PREVIEW_BATCH_SIZES[1]}
    /\ batch = 0
    /\ returned = NoValue
    /\ EditorIdle
    /\ ops = <<>>
    /\ ctx = NoValue
    /\ pc = 0
    /\ state = "Idle"
    /\ error = "none"
    /\ applied = <<>>
    /\ stdout = <<>>
    /\ stderr = <<>>
    /\ exit_code = -1

TryExecuteReturn(value, err) ==
    /\ returned' = [value |-> value, depth |-> compute_depth(programme),
                    error |-> err]
    /\ stage' = "returned"

TryExecuteCompileOk ==
    /\ caller = "try_execute" /\ stage = "compile"
    /\ ops' = compile(programme)
    /\ batch' = 1
    /\ stage' = "batch"
    /\ UNCHANGED <<input, op, output, caller, ctx, pc, state, error, applied,
                   stdout, stderr, exit_code, programme, parse_error,
                   needed_lines, EditorVars, returned>>

\* try_execute returning the first batch of the input when compile fails.
TryExecuteCompileErrFirstBatch ==
    /\ caller = "try_execute" /\ stage = "compile"
    /\ TryExecuteReturn(truncated_copy(input, PREVIEW_BATCH_SIZES[1]),
                        "compile error")
    /\ UNCHANGED <<input, op, output, caller, ops, ctx, pc, state, error,
                   applied, stdout, stderr, exit_code, programme,
                   parse_error, needed_lines, EditorVars, batch>>

TryExecuteCompileErr ==
    /\ caller = "try_execute" /\ stage = "compile"
    /\ TryExecuteReturn(deep_copy(input), "compile error")
    /\ UNCHANGED <<input, op, output, caller, ops, ctx, pc, state, error,
                   applied, stdout, stderr, exit_code, programme,
                   parse_error, needed_lines, EditorVars, batch>>

\* The input of the batch: all of it, or its first batch_size elements.
batch_input(batch_size) ==
    IF batch_size >= Len(input.elements)
    THEN deep_copy(input)
    ELSE truncated_copy(input, batch_size)

\* The head of the loop: a fresh Context over the batch, and run is called.
TryExecuteBatch ==
    /\ caller = "try_execute" /\ stage = "batch"
    /\ batch <= Len(batch_sizes)
    /\ ctx' = Context_new(batch_input(batch_sizes[batch]))
    /\ pc' = 0
    /\ applied' = <<>>
    /\ state' = "Running"
    /\ stage' = "run"
    /\ UNCHANGED <<input, op, output, caller, ops, error, stdout, stderr,
                   exit_code, programme, parse_error, needed_lines, EditorVars, batch,
                   returned>>

\* try_execute returning the whole input when run failed.
TryExecuteRunErrWholeInput ==
    /\ caller = "try_execute" /\ stage = "run"
    /\ state = "Failed"
    /\ TryExecuteReturn(deep_copy(input), error)
    /\ UNCHANGED <<input, op, output, caller, ops, ctx, pc, state, error,
                   applied, stdout, stderr, exit_code, programme,
                   parse_error, needed_lines, EditorVars, batch>>

TryExecuteRunErr ==
    /\ caller = "try_execute" /\ stage = "run"
    /\ state = "Failed"
    /\ TryExecuteReturn(into_value(ctx), error)
    /\ UNCHANGED <<input, op, output, caller, ops, ctx, pc, state, error,
                   applied, stdout, stderr, exit_code, programme,
                   parse_error, needed_lines, EditorVars, batch>>

\* run succeeded with enough lines, or over the whole input.
TryExecuteRunOkReturn ==
    /\ caller = "try_execute" /\ stage = "run"
    /\ state = "Done"
    /\ \/ count_output_lines(into_value(ctx)) >= needed_lines
       \/ batch_sizes[batch] >= Len(input.elements)
    /\ TryExecuteReturn(into_value(ctx), parse_error)
    /\ UNCHANGED <<input, op, output, caller, ops, ctx, pc, state, error,
                   applied, stdout, stderr, exit_code, programme,
                   parse_error, needed_lines, EditorVars, batch>>

\* try_execute going on to the next batch whenever the lines are too few.
TryExecuteRunOkNextLinesOnly ==
    /\ caller = "try_execute" /\ stage = "run"
    /\ state = "Done"
    /\ ~(count_output_lines(into_value(ctx)) >= needed_lines)
    /\ batch' = batch + 1
    /\ stage' = "batch"
    /\ state' = "Idle"
    /\ UNCHANGED <<input, op, output, caller, ops, ctx, pc, error, applied,
                   stdout, stderr, exit_code, programme, parse_error,
                   needed_lines, EditorVars, returned>>

\* run succeeded with too few lines over a truncated input: next batch.
TryExecuteRunOkNext ==
    /\ caller = "try_execute" /\ stage = "run"
    /\ state = "Done"
    /\ ~(\/ count_output_lines(into_value(ctx)) >= needed_lines
         \/ batch_sizes[batch] >= Len(input.elements))
    /\ batch' = batch + 1
    /\ stage' = "batch"
    /\ state' = "Idle"
    /\ UNCHANGED <<input, op, output, caller, ops, ctx, pc, error, applied,
                   stdout, stderr, exit_code, programme, parse_error,
                   needed_lines, EditorVars, returned>>

NextPreview ==
    \/ TryExecuteCompileOk \/ TryExecuteCompileErr
    \/ TryExecuteBatch
    \/ RunStepOk \/ RunStepErr \/ RunReturnOk
    \/ TryExecuteRunErr
    \/ TryExecuteRunOkReturn \/ TryExecuteRunOkNext

SpecPreview == InitPreview /\ [][NextPreview]_vars

\* try_execute over inputs shorter and longer than every bounded batch.
InitBatches ==
    /\ OpIdle
    /\ caller = "try_execute"
    /\ stage = "compile"
    /\ input \in BatchInputs
    /\ programme \in BatchProgrammes
    /\ parse_error \in {"none", "parse error"}
    /\ needed_lines \in BatchNeededLines
    /\ batch = 0
    /\ returned = NoValue
    /\ EditorIdle
    /\ ops = <<>>
    /\ ctx = NoValue
    /\ pc = 0
    /\ state = "Idle"
    /\ error = "none"
    /\ applied = <<>>
    /\ stdout = <<>>
    /\ stderr = <<>>
    /\ exit_code = -1

SpecBatches == InitBatches /\ [][NextPreview]_vars

-----------------------------------------------------------------------------
(* main.rs: a programme text run over a file of one line                   *)

InitExample ==
    /\ input \in ExampleInputs
    /\ op = NoneApplied
    /\ output = NoValue
    /\ RunIdle

ApplyProgramme ==
    /\ op = NoneApplied
    /\ \E text \in ExampleProgrammes :
          /\ op' = [name |-> "programme", text |-> text]
          /\ output' = run_programme_text(text, input)
    /\ UNCHANGED <<input, RunVars>>

NextExample == ApplyProgramme

SpecExample == InitExample /\ [][NextExample]_vars

-----------------------------------------------------------------------------
(* interactive.rs: the event loop, key by key                              *)

\* try_execute's search for a prefix from byte index i down: whether it
\* panics in slicing before it ends.
RECURSIVE prefix_search_panics(_, _)
prefix_search_panics(text, i) ==
    IF i < 0 THEN FALSE
    ELSE IF ~is_char_boundary(text, i) THEN TRUE
    ELSE LET r == parse_programme(str_slice_to(text, i))
         IN  IF r.ok /\ Len(r.val) > 0 THEN FALSE
             ELSE prefix_search_panics(text, i - 1)

\* draw panics: the help is hidden, so try_execute runs, the text fails to
\* parse and the search for a prefix slices inside a character.
draw_panics(text, ed) ==
    /\ ~ed.show_help
    /\ ~parse_programme(text).ok
    /\ prefix_search_panics(text, str_len(text) - 1)

InitKeys ==
    /\ OpIdle
    /\ input = NoValue
    /\ RunIdle

\* One turn of the event loop: a key is read and handled; Commit and
\* Cancel end the loop, otherwise the screen is drawn again.
HandleKey ==
    /\ editor.session = "running"
    /\ \E key \in Keys :
          LET r == handle_key(source, editor, key)
          IN  /\ Len(r.text) <= MaxTextLen
              /\ source' = r.text
              /\ editor' =
                    [r.ed EXCEPT
                       !.session =
                          CASE r.action = "Commit" -> "committed"
                            [] r.action = "Cancel" -> "cancelled"
                            [] r.action = "Panic" -> "panicked"
                            [] r.action = "Continue" ->
                                  IF draw_panics(r.text, r.ed)
                                  THEN "panicked" ELSE "running",
                       !.last =
                          Some([key    |-> key,
                                text   |-> source,
                                action |-> r.action,
                                ed     |-> [editor EXCEPT !.last = None]])]
    /\ UNCHANGED <<input, op, output, caller, stage, ops, ctx, pc, state,
                   error, applied, stdout, stderr, exit_code, programme,
                   parse_error, needed_lines, batch, returned, prefix,
                   history, calls>>

NextKeys == HandleKey

SpecKeys == InitKeys /\ [][NextKeys]_vars

-----------------------------------------------------------------------------
(* interactive/history.rs: the calls on one History                        *)

InitHistory ==
    /\ OpIdle
    /\ input = NoValue
    /\ RunIdle

\* One call as it is logged: the argument, the History before the call
\* and what the call returned.
HistoryCall(name, text, ret) ==
    [call |-> name, current |-> text, before |-> history, ret |-> ret]

\* add; the log starts again with this call.
HistoryAdd ==
    /\ \E text \in HistoryTexts :
          /\ Len(History_add(history, text).entries) <= MaxEntries
          /\ history' = History_add(history, text)
          /\ calls' = <<HistoryCall("add", text, None)>>
    /\ UNCHANGED <<input, op, output, caller, stage, ops, ctx, pc, state,
                   error, applied, stdout, stderr, exit_code, programme,
                   parse_error, needed_lines, batch, returned, source,
                   prefix, editor>>

HistoryUp ==
    /\ Len(calls) < MaxCalls
    /\ \E current \in HistoryCurrents :
          /\ history' = History_up(history, current).h
          /\ calls' = Append(calls,
                             HistoryCall("up", current,
                                         History_up(history, current).ret))
    /\ UNCHANGED <<input, op, output, caller, stage, ops, ctx, pc, state,
                   error, applied, stdout, stderr, exit_code, programme,
                   parse_error, needed_lines, batch, returned, source,
                   prefix, editor>>

HistoryDown ==
    /\ Len(calls) < MaxCalls
    /\ \E current \in HistoryCurrents :
          /\ history' = History_down(history, current).h
          /\ calls' = Append(calls,
                             HistoryCall("down", current,
                                         History_down(history, current).ret))
    /\ UNCHANGED <<input, op, output, caller, stage, ops, ctx, pc, state,
                   error, applied, stdout, stderr, exit_code, programme,
                   parse_error, needed_lines, batch, returned, source,
                   prefix, editor>>

\* reset; the log starts again with this call.
HistoryReset ==
    /\ history' = History_reset(history)
    /\ calls' = <<HistoryCall("reset", <<>>, None)>>
    /\ UNCHANGED <<input, op, output, caller, stage, ops, ctx, pc, state,
                   error, applied, stdout, stderr, exit_code, programme,
                   parse_error, needed_lines, batch, returned, source,
                   prefix, editor>>

NextHistory == HistoryAdd \/ HistoryUp \/ HistoryDown \/ HistoryReset

SpecHistory == InitHistory /\ [][NextHistory]_vars

-----------------------------------------------------------------------------
(* interactive/text.rs: the lines of a value and their number              *)

InitFormat ==
    /\ input \in FormatValues
    /\ op = NoneApplied
    /\ output = NoValue
    /\ RunIdle

\* The value is counted and formatted at a depth.
ApplyFormat ==
    /\ op = NoneApplied
    /\ \E depth \in 0..MaxDepth :
          /\ op' = [name |-> "format", depth |-> depth]
          /\ output' = [count |-> count_output_lines(input),
                        lines |-> format_text_with_depth(input, depth)]
    /\ UNCHANGED <<input, RunVars>>

NextFormat == ApplyFormat

SpecFormat == InitFormat /\ [][NextFormat]_vars

-----------------------------------------------------------------------------
(* interactive.rs: compute_depth of a parsed programme                     *)

InitDepth ==
    /\ OpIdle
    /\ PreviewIdle
    /\ input = NoValue
    /\ programme \in DepthProgrammes
    /\ caller = "none"
    /\ stage = "none"
    /\ ops = <<>>
    /\ ctx = NoValue
    /\ pc = 0
    /\ state = "Idle"
    /\ error = "none"
    /\ applied = <<>>
    /\ stdout = <<>>
    /\ stderr = <<>>
    /\ exit_code = -1

ApplyComputeDepth ==
    /\ op = NoneApplied
    /\ op' = [name |-> "compute_depth"]
    /\ output' = [depth |-> compute_depth(programme)]
    /\ UNCHANGED <<input, RunVars>>

NextDepth == ApplyComputeDepth

SpecDepth == InitDepth /\ [][NextDepth]_vars

-----------------------------------------------------------------------------
(* interactive.rs: try_execute from the programme text on                  *)

InitPreviewParse ==
    /\ OpIdle
    /\ caller = "try_execute"
    /\ stage = "parse"
    /\ input \in PreviewInputs
    /\ source \in ProgrammeTexts
    /\ programme = <<>>
    /\ parse_error = "none"
    /\ needed_lines \in {MIN_PREVIEW_LINES, 2 * PREVIEW_BATCH_SIZES[1]}
    /\ batch = 0
    /\ returned = NoValue
    /\ prefix = 0
    /\ history = History_new
    /\ calls = <<>>
    /\ editor = Editor_new
    /\ ops = <<>>
    /\ ctx = NoValue
    /\ pc = 0
    /\ state = "Idle"
    /\ error = "none"
    /\ applied = <<>>
    /\ stdout = <<>>
    /\ stderr = <<>>
    /\ exit_code = -1

\* The full text parses: its programme is run, there is no parse error.
TryExecuteParseOk ==
    /\ caller = "try_execute" /\ stage = "parse"
    /\ parse_programme(source).ok
    /\ programme' = parse_programme(source).val
    /\ stage' = "compile"
    /\ UNCHANGED <<input, op, output, caller, ops, ctx, pc, state, error,
                   applied, stdout, stderr, exit_code, parse_error,
                   needed_lines, batch, returned, EditorVars>>

\* The full text fails to parse: the error is kept and the loop over
\* (0..len).rev() starts at the byte index len - 1.
TryExecuteParseErr ==
    /\ caller = "try_execute" /\ stage = "parse"
    /\ ~parse_programme(source).ok
    /\ parse_error' = parse_programme(source).err
    /\ prefix' = str_len(source) - 1
    /\ stage' = "prefix"
    /\ UNCHANGED <<input, op, output, caller, ops, ctx, pc, state, error,
                   applied, stdout, stderr, exit_code, programme,
                   needed_lines, batch, returned, source, history, calls,
                   editor>>

\* &self.programme[..i] at a byte index inside a character panics.
TryExecutePrefixPanic ==
    /\ caller = "try_execute" /\ stage = "prefix"
    /\ prefix >= 0
    /\ ~is_char_boundary(source, prefix)
    /\ stage' = "panicked"
    /\ UNCHANGED <<input, op, output, caller, ops, ctx, pc, state, error,
                   applied, stdout, stderr, exit_code, programme,
                   parse_error, needed_lines, batch, returned, EditorVars>>

\* The prefix parses to a programme with an operator: the loop breaks.
TryExecutePrefixFound ==
    /\ caller = "try_execute" /\ stage = "prefix"
    /\ prefix >= 0
    /\ is_char_boundary(source, prefix)
    /\ LET r == parse_programme(str_slice_to(source, prefix))
       IN  /\ r.ok
           /\ Len(r.val) > 0
           /\ programme' = r.val
    /\ stage' = "compile"
    /\ UNCHANGED <<input, op, output, caller, ops, ctx, pc, state, error,
                   applied, stdout, stderr, exit_code, parse_error,
                   needed_lines, batch, returned, EditorVars>>

\* The prefix fails to parse, or parses to no operator: the next shorter.
TryExecutePrefixShorter ==
    /\ caller = "try_execute" /\ stage = "prefix"
    /\ prefix >= 0
    /\ is_char_boundary(source, prefix)
    /\ LET r == parse_programme(str_slice_to(source, prefix))
       IN  ~(r.ok /\ Len(r.val) > 0)
    /\ prefix' = prefix - 1
    /\ UNCHANGED <<input, op, output, caller, stage, ops, ctx, pc, state,
                   error, applied, stdout, stderr, exit_code, programme,
                   parse_error, needed_lines, batch, returned, source,
                   history, calls, editor>>

\* The loop ends without a prefix: the programme without operators.
TryExecutePrefixNone ==
    /\ caller = "try_execute" /\ stage = "prefix"
    /\ prefix < 0
    /\ programme' = <<>>
    /\ stage' = "compile"
    /\ UNCHANGED <<input, op, output, caller, ops, ctx, pc, state, error,
                   applied, stdout, stderr, exit_code, parse_error,
                   needed_lines, batch, returned, EditorVars>>

\* The transforms of the operators s, d, ; and /pat/ never fail, so run
\* always returns Ok here.
NextPreviewParse ==
    \/ TryExecuteParseOk \/ TryExecuteParseErr
    \/ TryExecutePrefixPanic \/ TryExecutePrefixFound
    \/ TryExecutePrefixShorter \/ TryExecutePrefixNone
    \/ TryExecuteCompileOk \/ TryExecuteCompileErr
    \/ TryExecuteBatch
    \/ RunStepOk \/ RunReturnOk
    \/ TryExecuteRunOkReturn \/ TryExecuteRunOkNext

SpecPreviewParse == InitPreviewParse /\ [][NextPreviewParse]_vars

-----------------------------------------------------------------------------
(* Properties of run and of the execution of a programme                   *)

\* The result of applying the first n transforms in order to value: the
\* value after the n-th, or the first error met.
RECURSIVE ApplyPrefix(_, _, _)
ApplyPrefix(transforms, n, value) ==
    IF n = 0 THEN Ok(value)
    ELSE LET before == ApplyPrefix(transforms, n - 1, value)
         IN  IF before.ok THEN Transform_apply(transforms[n], before.val)
             ELSE before

\* The root value the Context of the current run was created with.
RunInput ==
    IF caller = "main" THEN input ELSE batch_input(batch_sizes[batch])

\* The calls of apply so far are those of transforms 1..n, each once, in
\* order, each on the complete result of its predecessor.
AppliedInOrder(n) ==
    /\ Len(applied) = n
    /\ \A j \in 1..n :
          /\ applied[j].index = j
          /\ applied[j].arg = ApplyPrefix(ops, j - 1, RunInput).val

\* C1: when transform i = pc + 1 is the first whose apply fails, run stops
\* there: transforms 1..i were the only ones applied (none after i), the
\* error run returns is the one of transform i, the Context still holds the
\* result of transform i - 1 (the initial root when i = 1), and that is the
\* value try_execute reads with into_value and returns with the error.
C1_RunStopsAtFirstFailure ==
    state = "Failed" =>
        LET before == ApplyPrefix(ops, pc, RunInput)
        IN  /\ pc < Len(ops)
            /\ before.ok
            /\ ~Transform_apply(ops[pc + 1], before.val).ok
            /\ error = Transform_apply(ops[pc + 1], before.val).err
            /\ AppliedInOrder(pc + 1)
            /\ into_value(ctx) = before.val
            /\ stage = "returned" =>
                  /\ returned.value = before.val
                  /\ returned.error = error

C1_Witness ==
    /\ caller = "try_execute"
    /\ state = "Failed"
    /\ stage = "returned"
    /\ pc >= 1
    /\ pc + 1 < Len(ops)
    /\ returned.value = ctx
    /\ ctx # input

\* C2: an execution starts in Running (from no other state, with nothing
\* applied) and ends in Done or in Failed; it is Done only when every
\* transform succeeded and Failed only when one failed; at Done each
\* transform has been applied exactly once, in programme order, to the
\* complete output of its predecessor; Done and Failed are terminal: the
\* state, the applied transforms and the root never change afterwards.
C2_RunningThenDoneOrFailed ==
    /\ [](state = "Done" =>
             /\ ApplyPrefix(ops, Len(ops), RunInput).ok
             /\ AppliedInOrder(Len(ops))
             /\ ctx = ApplyPrefix(ops, Len(ops), RunInput).val)
    /\ [](state = "Failed" => ~ApplyPrefix(ops, Len(ops), RunInput).ok)
    /\ [][/\ state' # state =>
                \/ state = "Idle" /\ state' = "Running"
                      /\ pc' = 0 /\ applied' = <<>>
                \/ state = "Running" /\ state' \in {"Done", "Failed"}
          /\ state \in {"Done", "Failed"} =>
                /\ state' = state
                /\ applied' = applied
                /\ ctx' = ctx
                /\ pc' = pc]_vars
    /\ (state = "Running") ~> (state \in {"Done", "Failed"})

C2_Witness ==
    /\ caller = "main"
    /\ state = "Done"
    /\ stage = "exited"
    /\ exit_code = 0
    /\ Len(ops) >= 2
    /\ Len(applied) = Len(ops)
    /\ ctx # input

-----------------------------------------------------------------------------
(* Properties of the dedupe operators                                      *)

RECURSIVE SumSeq(_)
SumSeq(s) == IF Len(s) = 0 THEN 0 ELSE s[1] + SumSeq(Tail(s))

DedupeDone(names) == op.name \in names /\ input.kind = "A" /\ output.ok

Rows == output.val.elements

RowCount(r) == Rows[r].elements[1].n

RowValue(r) == Rows[r].elements[2]

InputKey(i) == value_to_key(input.elements[i])

\* The first position of the input whose key is that of output row r.
FirstSeen(r) ==
    CHOOSE i \in 1..Len(input.elements) :
        /\ InputKey(i) = value_to_key(RowValue(r))
        /\ \A j \in 1..(i - 1) : InputKey(j) # InputKey(i)

\* C3: the counts of the rows produced by DedupeWithCounts and by
\* DedupeSelectionWithCounts add up to the number of elements of the input
\* array, and every count is at least 1.
C3_CountsSumToLength ==
    DedupeDone({"d", "D"}) =>
        /\ SumSeq([r \in 1..Len(Rows) |-> RowCount(r)]) = Len(input.elements)
        /\ \A r \in 1..Len(Rows) : RowCount(r) >= 1

C3_Witness ==
    /\ DedupeDone({"D"})
    /\ Len(input.elements) = 3
    /\ Len(Rows) = 2

\* C4: the number of rows DedupeWithCounts outputs equals the number of
\* distinct values among the input elements (unequal elements are never
\* merged into one row).
C4_RowsEqualDistinctValues ==
    DedupeDone({"d"}) =>
        Len(Rows) = Cardinality({input.elements[i] : i \in 1..Len(input.elements)})

\* C5: the rows of DedupeWithCounts are ordered by count descending, rows
\* with equal counts in the order their value first occurred in the input;
\* each row is the Word-level pair [count, value], value being the
\* first-seen element with that key and count the number of elements with
\* that key; the rows form a Line-level array.
C5_RowsOrderedByCountThenFirstSeen ==
    DedupeDone({"d"}) =>
        /\ output.val.level = "Line"
        /\ \A r \in 1..Len(Rows) :
              /\ \E i \in 1..Len(input.elements) :
                    InputKey(i) = value_to_key(RowValue(r))
              /\ RowValue(r) = input.elements[FirstSeen(r)]
              /\ Rows[r] = Array(<<Number(Cardinality(
                        {i \in 1..Len(input.elements) :
                            InputKey(i) = InputKey(FirstSeen(r))})),
                        input.elements[FirstSeen(r)]>>, "Word")
        /\ \A r, q \in 1..Len(Rows) :
              r < q =>
                 \/ RowCount(r) > RowCount(q)
                 \/ (RowCount(r) = RowCount(q) /\ FirstSeen(r) < FirstSeen(q))

C5_Witness ==
    /\ DedupeDone({"d"})
    /\ Len(input.elements) = 3
    /\ input.elements[1] = Text(<<"a">>)
    /\ input.elements[2] = Number(1)
    /\ input.elements[3] = Number(1)
    /\ Rows = <<Array(<<Number(2), Number(1)>>, "Word"),
                Array(<<Number(1), Text(<<"a">>)>>, "Word")>>

IsPrefix(p, s) == Len(p) <= Len(s) /\ SubSeq(s, 1, Len(p)) = p

KeyTag(kind) ==
    CASE kind = "T" -> <<"T", ":">>
      [] kind = "N" -> <<"N", ":">>
      [] kind = "A" -> <<"A", ":", "[">>

\* C6: value_to_key never confuses the three kinds of value: the key of a
\* text starts with T:, of a number with N:, of an array with A:[, and
\* elements of different kinds have different keys, so DedupeWithCounts
\* puts them in different rows.
C6_KindsNeverConfused ==
    input.kind = "A" =>
        /\ \A i \in 1..Len(input.elements) :
              IsPrefix(KeyTag(input.elements[i].kind), InputKey(i))
        /\ \A i, j \in 1..Len(input.elements) :
              input.elements[i].kind # input.elements[j].kind
                  => InputKey(i) # InputKey(j)
        /\ DedupeDone({"d"}) =>
              \A i \in 1..Len(input.elements) :
                  \E r \in 1..Len(Rows) :
                      RowValue(r).kind = input.elements[i].kind

C6_Witness ==
    /\ DedupeDone({"d"})
    /\ input.elements = <<Text(<<"1">>), Number(1), Text(<<"1">>)>>
    /\ Len(Rows) = 2

ExtractedKey(i) == extract_key(input.elements[i], op.selection).val

\* C7: DedupeSelectionWithCounts counts two rows of the input in the same
\* output row exactly when their extracted keys are equal: there is one
\* output row [count, key] per distinct extracted key, and its count is
\* the number of input rows whose extracted key is that key.
C7_GroupedByExtractedKey ==
    DedupeDone({"D"}) =>
        /\ Len(Rows) =
              Cardinality({ExtractedKey(i) : i \in 1..Len(input.elements)})
        /\ \A r \in 1..Len(Rows) :
              RowCount(r) = Cardinality({i \in 1..Len(input.elements) :
                                            ExtractedKey(i) = RowValue(r)})

-----------------------------------------------------------------------------
(* Properties of Columnate                                                 *)

ColumnateDone == op.name = "c" /\ output.ok

\* The text of cell i of input row r (a row that is no array is one cell).
InCell(r, i) ==
    LET row == input.elements[r]
    IN  IF row.kind = "A" THEN to_string(row.elements[i]) ELSE to_string(row)

InCells(r) ==
    LET row == input.elements[r]
    IN  IF row.kind = "A" THEN Len(row.elements) ELSE 1

\* The greatest width, in characters, of the cells at column i.
MaxWidth(i) ==
    LET widths == {Len(InCell(r, i)) :
                      r \in {q \in 1..Len(input.elements) : i <= InCells(q)}}
    IN  CHOOSE w \in widths : \A v \in widths : v <= w

OnlySpaces(s) == \A k \in 1..Len(s) : s[k] = " "

\* C8: after Columnate on a non-empty array, every cell but the last of
\* its row is the input cell's text followed by spaces only, up to the
\* greatest width (in characters) of the cells at its column over all
\* rows; the last cell of each row is the input cell's text unpadded.
C8_CellsPaddedToColumnWidth ==
    (ColumnateDone /\ input.kind = "A" /\ Len(input.elements) > 0) =>
        \A r \in 1..Len(Rows) :
            \A i \in 1..Len(Rows[r].elements) :
                LET out == Rows[r].elements[i].s
                    src == InCell(r, i)
                IN  IF i = Len(Rows[r].elements)
                    THEN out = src
                    ELSE /\ Len(out) = MaxWidth(i)
                         /\ IsPrefix(src, out)
                         /\ OnlySpaces(SubSeq(out, Len(src) + 1, Len(out)))

\* A short first cell above a wider one, and a last cell that stays short.
C8_Witness ==
    /\ ColumnateDone
    /\ input.kind = "A"
    /\ Len(input.elements) = 2
    /\ Rows[1] = Array(<<Text(<<"é", " ">>), Text(<<"é">>)>>, "Word")
    /\ Rows[2] = Array(<<Text(<<"b", "b">>)>>, "Word")

\* C9: Columnate keeps the shape of its input array: as many rows, in the
\* same order, at the same level; each output row has as many cells as the
\* input row (one for a row that is no array) and every cell is a Text
\* that starts with the input cell's text; an empty array and a value that
\* is no array come back unchanged.
C9_ShapePreserved ==
    ColumnateDone =>
        IF input.kind # "A" \/ Len(input.elements) = 0
        THEN output.val = input
        ELSE /\ output.val.kind = "A"
             /\ output.val.level = input.level
             /\ Len(Rows) = Len(input.elements)
             /\ \A r \in 1..Len(Rows) :
                   /\ Rows[r].kind = "A"
                   /\ Len(Rows[r].elements) = InCells(r)
                   /\ \A i \in 1..InCells(r) :
                         /\ Rows[r].elements[i].kind = "T"
                         /\ IsPrefix(InCell(r, i), Rows[r].elements[i].s)

\* A row of two cells above a row that is no array.
C9_Witness ==
    /\ ColumnateDone
    /\ input.kind = "A"
    /\ Len(input.elements) = 2
    /\ input.elements[2] = Number(7)
    /\ Len(Rows[1].elements) = 2
    /\ Rows[2] = Array(<<Text(<<"7">>)>>, "Word")

-----------------------------------------------------------------------------
(* Properties of Split                                                     *)

SplitDone == op.name = "s" /\ output.ok

\* The level one step finer, as the claim lists it.
FinerLevel(level) ==
    CASE level = "File" -> "Line"
      [] level = "Line" -> "Word"
      [] level = "Word" -> "Char"
      [] level = "Char" -> "Char"

Chars(s) == [i \in 1..Len(s) |-> Text(<<s[i]>>)]

RECURSIVE ConcatTexts(_)
ConcatTexts(texts) ==
    IF Len(texts) = 0 THEN <<>> ELSE texts[1].s \o ConcatTexts(Tail(texts))

Without(s, chars) == SelectSeq(s, LAMBDA c : c \notin chars)

\* What Split makes of the text s found in an array of the given level.
SplitOfTextOk(s, level, mode, e) ==
    /\ e.kind = "A"
    /\ e.level = FinerLevel(level)
    /\ \A k \in 1..Len(e.elements) : e.elements[k].kind = "T"
    /\ level = "File" =>
          /\ \A k \in 1..Len(e.elements) : "\n" \notin Range(e.elements[k].s)
          /\ Without(ConcatTexts(e.elements), {"\n", "\r"})
                = Without(s, {"\n", "\r"})
    /\ (level = "Line" /\ mode.mode = "Whitespace") =>
          /\ \A k \in 1..Len(e.elements) :
                /\ Len(e.elements[k].s) > 0
                /\ Range(e.elements[k].s) \cap {" ", "\t", "\n", "\r"} = {}
          /\ ConcatTexts(e.elements) = Without(s, {" ", "\t", "\n", "\r"})
    /\ level = "Word" => e.elements = Chars(s)
    /\ level = "Char" => e.elements = <<Text(s)>>

\* C10: Split on an array of level L replaces each Text element by an
\* array of the level one step finer than L (lines at Line for File, words
\* at Word for Line, characters at Char for Word, the text alone at Char
\* for Char) and keeps the outer array's level and number of elements; a
\* bare Text becomes the Char-level array of its characters.
C10_SplitRefinesLevel ==
    SplitDone =>
        /\ input.kind = "A" =>
              /\ output.val.kind = "A"
              /\ output.val.level = input.level
              /\ Len(output.val.elements) = Len(input.elements)
              /\ \A i \in 1..Len(input.elements) :
                    input.elements[i].kind = "T" =>
                        SplitOfTextOk(input.elements[i].s, input.level,
                                      op.mode, output.val.elements[i])
        /\ input.kind = "T" => output.val = Array(Chars(input.s), "Char")

\* A line of two words in a Line-level array, split on whitespace.
C10_Witness ==
    /\ SplitDone
    /\ op.mode = Whitespace
    /\ input = Array(<<Text(<<"a", " ", "b">>), Number(1)>>, "Line")
    /\ output.val = Array(<<Array(<<Text(<<"a">>), Text(<<"b">>)>>, "Word"),
                            Number(1)>>, "Line")

\* C11: Split applied to an array leaves every element that is an Array or
\* a Number as it is, in every split mode; so Split applied a second time,
\* in any mode, to what Split made of an array changes nothing.
C11_SplitNeverRecurses ==
    /\ (SplitDone /\ input.kind = "A") =>
          \A i \in 1..Len(input.elements) :
              input.elements[i].kind \in {"A", "N"} =>
                  output.val.elements[i] = input.elements[i]
    /\ (op.name = "ss" /\ input.kind = "A") =>
          /\ output.ok
          /\ output.val = op.first

\* A Word-level array holding a text with a space, inside a Line-level
\* array with a text of two words: split twice on whitespace.
C11_Witness ==
    /\ op.name = "ss"
    /\ op.mode = Whitespace
    /\ op.again = Whitespace
    /\ input = Array(<<Array(<<Text(<<"a", " ", "b">>)>>, "Word"),
                       Text(<<"a", " ", "b">>)>>, "Line")
    /\ output.val = Array(<<Array(<<Text(<<"a", " ", "b">>)>>, "Word"),
                            Array(<<Text(<<"a">>), Text(<<"b">>)>>, "Word")>>,
                          "Line")

\* The text s contains the text d (d not empty).
Contains(s, d) ==
    \E k \in 1..(Len(s) - Len(d) + 1) : SubSeq(s, k, k + Len(d) - 1) = d

\* C12: for a Line-level array of texts, Split on the delimiter that is the
\* default join delimiter of the Word level (one space) and then Join give
\* back an array equal to the input, when no element contains that
\* delimiter.
C12_JoinInvertsSplit ==
    (/\ op.name = "sj"
     /\ op.mode = Delimiter(join_delimiter(split_into("Line")))
     /\ input.kind = "A"
     /\ input.level = "Line"
     /\ \A i \in 1..Len(input.elements) :
           /\ input.elements[i].kind = "T"
           /\ ~Contains(input.elements[i].s, join_delimiter(split_into("Line"))))
    => /\ output.ok
       /\ output.val = input

\* Two texts without a space, one with white space of another kind, split
\* on the space into one-word rows and joined again.
C12_Witness ==
    /\ op.name = "sj"
    /\ op.mode = Delimiter(<<" ">>)
    /\ input = Array(<<Text(<<"a", ",", ",", "b">>),
                       Text(<<"a", "\r", "\n", ",">>)>>, "Line")
    /\ op.first = Array(<<Array(<<Text(<<"a", ",", ",", "b">>)>>, "Word"),
                          Array(<<Text(<<"a", "\r", "\n", ",">>)>>, "Word")>>,
                        "Line")
    /\ output.val = input

-----------------------------------------------------------------------------
(* Properties of splitting on a delimiter                                  *)

\* The occurrences of d in s that do not overlap, counted from the left.
RECURSIVE CountOccurrences(_, _)
CountOccurrences(s, d) ==
    IF Len(s) < Len(d) THEN 0
    ELSE IF SubSeq(s, 1, Len(d)) = d
    THEN 1 + CountOccurrences(SubSeq(s, Len(d) + 1, Len(s)), d)
    ELSE CountOccurrences(Tail(s), d)

\* The texts of a sequence of Text values.
StringsOf(texts) == [k \in 1..Len(texts) |-> texts[k].s]

\* parts are the parts of s between the occurrences of d, from the left.
PartsBetween(parts, s, d) ==
    /\ \A k \in 1..Len(parts) : parts[k].kind = "T"
    /\ Len(parts) = CountOccurrences(s, d) + 1
    /\ join(StringsOf(parts), d) = s
    /\ \A k \in 1..Len(parts) : ~Contains(parts[k].s, d)
    /\ \A k \in 1..(Len(parts) - 1) :
          LET rest == join(StringsOf(SubSeq(parts, k, Len(parts))), d)
          IN  \A q \in 1..Len(parts[k].s) :
                  SubSeq(rest, q, q + Len(d) - 1) # d

\* C13: a text split on a delimiter d that is not empty, by SplitDelim or by
\* Split in Delimiter mode in a Line-level array, gives the parts between
\* the successive occurrences of d that do not overlap, from the left: one
\* part more than there are occurrences (the text alone when there is
\* none), empty parts kept, and the parts joined with d are the text.
C13_PartsBetweenDelimiters ==
    /\ (op.name = "S" /\ op.delimiter # <<>> /\ input.kind = "T") =>
          /\ output.ok
          /\ output.val.kind = "A"
          /\ PartsBetween(output.val.elements, input.s, op.delimiter)
    /\ (op.name = "s" /\ op.mode.delim # <<>>) =>
          /\ output.ok
          /\ \A i \in 1..Len(input.elements) :
                input.elements[i].kind = "T" =>
                    PartsBetween(output.val.elements[i].elements,
                                 input.elements[i].s, op.mode.delim)

\* Adjacent delimiters, one of them at the end: two empty parts are kept.
C13_Witness ==
    /\ op.name = "S"
    /\ op.delimiter = <<",">>
    /\ input = Text(<<"a", ",", ",">>)
    /\ output.val = Array(<<Text(<<"a">>), Text(<<>>), Text(<<>>)>>, "Word")

\* after is before with every Text leaf replaced by the Word-level array of
\* its parts on d, every Number as it was, and every array of the same
\* level and length with its elements in the same order.
RECURSIVE TextLeavesSplit(_, _, _)
TextLeavesSplit(before, after, d) ==
    CASE before.kind = "N" -> after = before
      [] before.kind = "T" ->
            /\ after.kind = "A"
            /\ after.level = "Word"
            /\ \A k \in 1..Len(after.elements) : after.elements[k].kind = "T"
            /\ join(StringsOf(after.elements), d) = before.s
            /\ d # <<>> => PartsBetween(after.elements, before.s, d)
      [] before.kind = "A" ->
            /\ after.kind = "A"
            /\ after.level = before.level
            /\ Len(after.elements) = Len(before.elements)
            /\ \A i \in 1..Len(before.elements) :
                  TextLeavesSplit(before.elements[i], after.elements[i], d)

\* C14: SplitDelim replaces every Text leaf of its input, however deep, by
\* the Word-level array of its parts, gives every Number back unchanged, and
\* keeps the level, the length and the order of the elements of every array
\* on the way.
C14_SplitDelimReplacesTextLeaves ==
    op.name = "S" =>
        /\ output.ok
        /\ TextLeavesSplit(input, output.val, op.delimiter)

\* A File-level array holding a Word-level array that holds a text and a
\* Char-level array of a number and a text, split on ",".
C14_Witness ==
    /\ op.name = "S"
    /\ op.delimiter = <<",">>
    /\ input.kind = "A"
    /\ input.level = "File"
    /\ Len(input.elements) = 2
    /\ output.val =
          Array(<<Array(<<Array(<<Text(<<>>), Text(<<"a">>)>>, "Word"),
                          Array(<<Number(7),
                                  Array(<<Text(<<"a", "a", "a">>)>>, "Word")>>,
                                "Char")>>, "Word"),
                  Array(<<Text(<<"a">>), Text(<<>>), Text(<<>>)>>, "Word")>>,
                "File")

-----------------------------------------------------------------------------
(* Properties of the interactive preview                                   *)

\* Some compiled operator of the programme requires the full input.
SomeRequiresFullInput == \E i \in 1..Len(ops) : requires_full_input(ops[i])

\* The Context of a run of try_execute is being created.
PreviewRunStarts == caller = "try_execute" /\ stage = "batch" /\ stage' = "run"

\* C15: the dedupe operators and columnate report requires_full_input; when
\* some compiled operator does, try_execute runs the programme once only,
\* over a copy of the entire input, never over a truncated prefix; a run
\* over a truncated prefix happens only when no operator requires the full
\* input.
C15_FullInputWhenRequired ==
    /\ \A t \in {[name |-> "d"], [name |-> "D"], [name |-> "c"]} :
          requires_full_input(t)
    /\ [][PreviewRunStarts =>
             /\ SomeRequiresFullInput => (ctx' = input /\ batch = 1)
             /\ Len(ctx'.elements) < Len(input.elements) =>
                   ~SomeRequiresFullInput]_vars
    /\ [][(caller = "try_execute" /\ stage = "run" /\ SomeRequiresFullInput)
             => stage' \in {"run", "returned"}]_vars

\* A programme with a dedupe has run to its end over an input longer than
\* the first batch, and all of the input was given to its first transform.
C15_Witness ==
    /\ caller = "try_execute"
    /\ stage = "returned"
    /\ state = "Done"
    /\ SomeRequiresFullInput
    /\ Len(input.elements) > PREVIEW_BATCH_SIZES[1]
    /\ batch = 1
    /\ applied[1].arg = input
    /\ returned.value # input

-----------------------------------------------------------------------------
(* C16: the preview of a programme text that fails to parse                *)

\* The lengths, in characters, of the proper prefixes of the text that
\* parse to a programme with at least one operator.
ParsingPrefixes(text) ==
    { k \in 0..(Len(text) - 1) :
        LET r == parse_programme(SubSeq(text, 1, k))
        IN  r.ok /\ Len(r.val) > 0 }

\* The programme of the longest such prefix, the empty programme when
\* there is none.
LongestPrefixProgramme(text) ==
    IF ParsingPrefixes(text) = {} THEN <<>>
    ELSE parse_programme(
             SubSeq(text, 1, CHOOSE k \in ParsingPrefixes(text) :
                                 \A j \in ParsingPrefixes(text) : j <= k)).val

\* C16: when the full programme text fails to parse, try_execute goes
\* through the shorter prefixes, longest first, without failing itself, and
\* runs the longest proper prefix that parses to a programme with at least
\* one operator (the empty programme when there is none); the parse error
\* of the full text is kept, and it is returned alongside the preview value
\* when the run of the prefix succeeds.
C16_LongestParsingPrefixRuns ==
    (caller = "try_execute" /\ ~parse_programme(source).ok /\ stage # "parse")
        => /\ stage # "panicked"
           /\ parse_error = parse_programme(source).err
           /\ stage # "prefix" =>
                  programme = LongestPrefixProgramme(source)
           /\ (stage = "returned" /\ state = "Done") =>
                  /\ returned.error = parse_programme(source).err
                  /\ returned.value = into_value(ctx)

\* The same for the texts of one-byte characters only.
C16_AsciiOnly ==
    (\A i \in 1..Len(source) : utf8_len_char(source[i]) = 1)
        => C16_LongestParsingPrefixRuns

-----------------------------------------------------------------------------
(* C17: the exit status and the standard output of main                    *)

\* main ended without run having been called (parsing, loading or
\* compiling failed) or after run failed.
MainStageFailed == stage = "exited" /\ state \in {"Idle", "Failed"}

\* C17: main exits with status 1 whenever parsing the programme, loading
\* the input, compiling or running fails, and then nothing has been written
\* to standard output; nothing is written before the four stages have
\* succeeded; status 0 is reached only after all four succeeded, with the
\* rendered result of the programme followed by exactly one newline as the
\* whole standard output; a failed run always leads to the exit with
\* status 1.
C17_ExitStatusAndOutput ==
    /\ [](caller = "main" =>
            /\ MainStageFailed => exit_code = 1 /\ stdout = <<>>
            /\ stage # "exited" => exit_code = -1 /\ stdout = <<>>
            /\ stdout # <<>> => state = "Done"
            /\ exit_code = 0 =>
                  /\ stage = "exited"
                  /\ state = "Done"
                  /\ input \in LoadedInputs
                  /\ ops = compile(programme)
                  /\ ApplyPrefix(ops, Len(ops), input).ok
                  /\ Len(stdout) = 2
                  /\ stdout[1].value = ApplyPrefix(ops, Len(ops), input).val
                  /\ stdout[2] = "\n")
    /\ (caller = "main" /\ state = "Failed") ~> (exit_code = 1)

C17_Witness ==
    /\ caller = "main"
    /\ stage = "exited"
    /\ state = "Failed"
    /\ pc >= 1
    /\ exit_code = 1
    /\ stdout = <<>>
    /\ stderr # <<>>

-----------------------------------------------------------------------------
(* C18, C19, C20: History                                                  *)

\* The History after logged call r.
HistoryAfter(r) == IF r < Len(calls) THEN calls[r + 1].before ELSE history

\* Entry i of the History before logged call r, counted from 0.
EntryBefore(r, i) == calls[r].before.entries[i + 1]

\* The logged calls p..q are all calls of `name`.
AllCalls(p, q, name) == \A r \in p..q : calls[r].call = name

\* C18: with entries e0..e(n-1), n > 0, and no navigation active, the j-th
\* of successive up calls returns e(n-j) for j <= n, and every further up
\* returns None and leaves the index at 0; a down during navigation returns
\* the next newer entry and moves the index to it, and from the newest
\* entry it returns the draft and ends navigation; on an empty History up
\* and down return None and change nothing.
C18_NavigationBounded ==
    /\ \A p \in 1..Len(calls) : \A q \in p..Len(calls) :
          (/\ AllCalls(p, q, "up")
           /\ ~calls[p].before.index.some
           /\ Len(calls[p].before.entries) > 0)
          => LET n == Len(calls[p].before.entries)
                 j == q - p + 1
             IN  IF j <= n
                 THEN /\ calls[q].ret = Some(EntryBefore(p, n - j))
                      /\ HistoryAfter(q).index = Some(n - j)
                 ELSE /\ calls[q].ret = None
                      /\ HistoryAfter(q).index = Some(0)
                      /\ HistoryAfter(q) = calls[q].before
    /\ \A r \in 1..Len(calls) :
          (calls[r].call = "down" /\ calls[r].before.index.some)
          => LET n == Len(calls[r].before.entries)
                 i == calls[r].before.index.v
             IN  IF i + 1 < n
                 THEN /\ calls[r].ret = Some(EntryBefore(r, i + 1))
                      /\ HistoryAfter(r).index = Some(i + 1)
                 ELSE /\ calls[r].ret = Some(calls[r].before.draft)
                      /\ HistoryAfter(r).index = None
    /\ \A r \in 1..Len(calls) :
          (calls[r].call \in {"up", "down"}
           /\ Len(calls[r].before.entries) = 0)
          => /\ calls[r].ret = None
             /\ HistoryAfter(r) = calls[r].before

\* Two entries: up, up, a third up that returns None at index 0, and a
\* down to the newer entry.
C18_Witness ==
    /\ Len(calls) = 5
    /\ calls[1].call = "add"
    /\ Len(history.entries) = 2
    /\ ~calls[2].before.index.some
    /\ AllCalls(2, 4, "up")
    /\ calls[2].ret = Some(history.entries[2])
    /\ calls[3].ret = Some(history.entries[1])
    /\ calls[4].ret = None
    /\ calls[5].call = "down"
    /\ calls[5].ret = Some(history.entries[2])
    /\ history.index = Some(1)

\* C19: starting with no navigation active, for every k from 1 to the
\* number of entries, k calls of up followed by k calls of down end with
\* the last down returning the text passed as `current` to the first up,
\* and with index None, whatever is passed as `current` to the later calls.
C19_DraftPreserved ==
    \A p \in 1..Len(calls) : \A k \in 1..Len(calls) :
        (/\ p + 2 * k - 1 <= Len(calls)
         /\ k <= Len(calls[p].before.entries)
         /\ ~calls[p].before.index.some
         /\ AllCalls(p, p + k - 1, "up")
         /\ AllCalls(p + k, p + 2 * k - 1, "down"))
        => /\ calls[p + 2 * k - 1].ret = Some(calls[p].current)
           /\ HistoryAfter(p + 2 * k - 1).index = None

\* Two ups and two downs, each with another `current` than the call before.
C19_Witness ==
    /\ Len(calls) = 5
    /\ Len(history.entries) = 2
    /\ ~calls[2].before.index.some
    /\ AllCalls(2, 3, "up")
    /\ AllCalls(4, 5, "down")
    /\ calls[2].current = <<"x">>
    /\ calls[3].current = <<"y">>
    /\ calls[4].current = <<"y">>
    /\ calls[5].current = <<"y">>
    /\ calls[5].ret = Some(<<"x">>)
    /\ ~history.index.some

\* A text without whitespace at its ends.
Trimmed(t) ==
    Len(t) > 0 => ~is_whitespace(t[1]) /\ ~is_whitespace(t[Len(t)])

\* t without its leading and trailing whitespace: the one trimmed text u
\* with t = blanks, u, blanks.
TrimOf(t) ==
    CHOOSE u \in {SubSeq(t, a, b) : a \in 1..(Len(t) + 1), b \in 0..Len(t)} :
        /\ Trimmed(u)
        /\ \E a \in 1..(Len(t) + 1 - Len(u)) :
              /\ u = SubSeq(t, a, a + Len(u) - 1)
              /\ \A i \in (1..Len(t)) \ (a..(a + Len(u) - 1)) :
                    is_whitespace(t[i])

\* C20: add appends the trimmed programme unless it is empty after
\* trimming or equal to the last entry; no entry of a History built by add
\* calls is empty or has leading or trailing whitespace, no two adjacent
\* entries are equal, and add changes neither the index nor the draft.
C20_AddKeepsEntriesClean ==
    /\ \A i \in 1..Len(history.entries) :
          /\ Len(history.entries[i]) > 0
          /\ Trimmed(history.entries[i])
          /\ i > 1 => history.entries[i] # history.entries[i - 1]
    /\ \A r \in 1..Len(calls) :
          calls[r].call = "add"
          => LET old == calls[r].before
                 new == HistoryAfter(r)
                 t   == TrimOf(calls[r].current)
             IN  /\ new.index = old.index
                 /\ new.draft = old.draft
                 /\ new.entries =
                       IF \/ Len(t) = 0
                          \/ /\ Len(old.entries) > 0
                             /\ old.entries[Len(old.entries)] = t
                       THEN old.entries
                       ELSE Append(old.entries, t)

\* During navigation, with a draft held, the padded text equal to the last
\* entry is added: nothing changes.
C20_Witness ==
    /\ Len(calls) = 1
    /\ calls[1].call = "add"
    /\ calls[1].current = <<" ", "a", " ">>
    /\ calls[1].before.entries = <<<<"a", " ", "b">>, <<"a">>>>
    /\ calls[1].before.index = Some(0)
    /\ calls[1].before.draft = <<"x">>
    /\ history = calls[1].before

-----------------------------------------------------------------------------
(* C21: the example programme of the help text                             *)

\* The text of the lines with a newline between them.
LinesText(ls) == join(ls, <<"\n">>)

\* C21: `sjldo:20` over the line "The quick the Brown fox the quick"
\* renders as the four lines "3 the", "2 quick", "1 brown", "1 fox".
C21_TopWordsExample ==
    (/\ op.name = "programme"
     /\ op.text = <<"s", "j", "l", "d", "o", ":", "2", "0">>
     /\ input = Array(<<Text(ExampleLine)>>, "Line"))
    => /\ output.ok
       /\ to_string(output.val) =
             LinesText(<< <<"3", " ">> \o W_the,
                          <<"2", " ">> \o W_quick,
                          <<"1", " ">> \o <<"b", "r", "o", "w", "n">>,
                          <<"1", " ">> \o W_fox >>)

-----------------------------------------------------------------------------
(* C22: what try_execute returns when compile or run fails                 *)

\* C22: once run has failed, the next and only step of try_execute is the
\* return, with the error of run and the value the Context holds, which is
\* the result of the transforms before the failing one over the batch of
\* that run; no further batch is started, no Context created. When compile
\* fails, no run is made and the returned value is the whole input,
\* unchanged, with the compile error.
C22_FailureReturns ==
    /\ [][(caller = "try_execute" /\ state = "Failed")
             => /\ stage = "run"
                /\ stage' = "returned"
                /\ batch' = batch
                /\ ctx' = ctx
                /\ applied' = applied
                /\ returned'.error = error
                /\ returned'.value = ApplyPrefix(ops, pc, RunInput).val]_vars
    /\ [](caller = "try_execute" /\ stage = "returned" /\ state = "Failed"
             => /\ returned.error = error
                /\ returned.error # parse_error
                /\ returned.value = ApplyPrefix(ops, pc, RunInput).val)
    /\ [](caller = "try_execute" /\ stage = "returned" /\ state = "Idle"
             => /\ returned.error = "compile error"
                /\ returned.value = input
                /\ batch = 0
                /\ applied = <<>>
                /\ ctx = NoValue)

\* A run over the first batch of an input longer than the batch fails
\* after a transform succeeded: the value returned is a partial result over
\* that batch.
C22_Witness ==
    /\ caller = "try_execute"
    /\ stage = "returned"
    /\ state = "Failed"
    /\ batch = 1
    /\ Len(input.elements) > PREVIEW_BATCH_SIZES[1]
    /\ pc >= 1
    /\ returned.value = ApplyPrefix(ops, pc, RunInput).val
    /\ returned.value # truncated_copy(input, PREVIEW_BATCH_SIZES[1])
    /\ returned.error = "E1"

-----------------------------------------------------------------------------
(* C23, C27: the keys of the line editor                                   *)

\* The editor without its record of the last key.
EditorFields(ed) ==
    [cursor |-> ed.cursor, json_output |-> ed.json_output,
     show_help |-> ed.show_help]

\* C23: while the help is shown, Esc only hides it: the session goes on,
\* text, cursor and JSON flag stay. Every other key hides the help and has
\* the effect and the result it has on the same editor with the help
\* hidden: Enter commits, Ctrl+C cancels, a character is inserted. With the
\* help hidden, Esc cancels.
C23_HelpEscOnlyHides ==
    editor.last.some =>
        LET l      == editor.last.v
            hidden == handle_key(l.text, [l.ed EXCEPT !.show_help = FALSE],
                                 l.key)
        IN  /\ (l.ed.show_help /\ l.key.code = "Esc")
                  => /\ l.action = "Continue"
                     /\ editor.session = "running"
                     /\ ~editor.show_help
                     /\ source = l.text
                     /\ editor.cursor = l.ed.cursor
                     /\ editor.json_output = l.ed.json_output
            /\ (l.ed.show_help /\ l.key.code # "Esc")
                  => /\ l.action = hidden.action
                     /\ source = hidden.text
                     /\ EditorFields(editor) = EditorFields(hidden.ed)
                     /\ l.key.code = "Enter" => editor.session = "committed"
                     /\ (l.key.code = "Char" /\ l.key.c = "c"
                         /\ l.key.control) => editor.session = "cancelled"
                     /\ (l.key.code = "Char" /\ ~l.key.control
                         /\ l.action # "Panic")
                           => /\ Len(source) = Len(l.text) + 1
                              /\ \E i \in 1..Len(source) :
                                    /\ source[i] = l.key.c
                                    /\ source = SubSeq(l.text, 1, i - 1)
                                                \o <<l.key.c>>
                                                \o SubSeq(l.text, i,
                                                          Len(l.text))
                     /\ ~(l.key.code = "Char" /\ l.key.c = "h"
                          /\ l.key.control) => ~editor.show_help
            /\ (~l.ed.show_help /\ l.key.code = "Esc")
                  => /\ l.action = "Cancel"
                     /\ editor.session = "cancelled"

\* Enter while the help is shown over a text: the session is committed.
C23_Witness ==
    /\ editor.last.some
    /\ editor.last.v.ed.show_help
    /\ editor.last.v.key.code = "Enter"
    /\ editor.session = "committed"
    /\ ~editor.show_help
    /\ Len(source) > 0

\* C27: after any sequence of key events the cursor is between 0 and the
\* length of the programme in bytes and on a character boundary, and no
\* insert or remove call of handle_key panics.
C27_CursorOnCharBoundary ==
    /\ 0 <= editor.cursor
    /\ editor.cursor <= str_len(source)
    /\ is_char_boundary(source, editor.cursor)
    /\ editor.last.some => editor.last.v.action # "Panic"

-----------------------------------------------------------------------------
(* C24: the number of lines of a value                                     *)

\* C24: for every value and every depth, count_output_lines gives the
\* number of lines format_text_with_depth returns.
C24_CountEqualsFormattedLines ==
    op.name = "format" => output.count = Len(output.lines)

\* The same for every value but the texts without a line.
C24_ExceptEmptyText ==
    (op.name = "format" /\ ~(input.kind = "T" /\ Len(lines(input.s)) = 0))
        => output.count = Len(output.lines)

-----------------------------------------------------------------------------
(* C25: the focus depth of a programme                                     *)

\* The focus depth after the first n operators: from 0, one more for each
\* `@`, one less for each `^` unless the depth is 0, unchanged otherwise.
RECURSIVE DepthAfter(_, _)
DepthAfter(prog, n) ==
    IF n = 0 THEN 0
    ELSE LET d == DepthAfter(prog, n - 1)
         IN  CASE prog[n].node = "Descend" -> d + 1
               [] prog[n].node = "Ascend" -> IF d = 0 THEN 0 ELSE d - 1
               [] OTHER -> d

\* C25: compute_depth returns the depth of the left-to-right scan in which
\* `@` adds 1, `^` subtracts 1 but not below 0, and every other operator
\* changes nothing; the result is never negative.
C25_DepthOfScan ==
    op.name = "compute_depth"
        => /\ output.depth = DepthAfter(programme, Len(programme))
           /\ output.depth >= 0
           /\ output.depth <= Len(programme)

\* `^` at depth 0 is ignored and the `@` after it counts: ^ @ @ ^ has
\* depth 1.
C25_Witness ==
    /\ op.name = "compute_depth"
    /\ Len(programme) = 4
    /\ programme[1].node = "Ascend"
    /\ programme[2].node = "Descend"
    /\ programme[3].node = "Descend"
    /\ programme[4].node = "Ascend"
    /\ output.depth = 1

-----------------------------------------------------------------------------
(* C26: the adaptive batches of the preview                                *)

\* The number of elements of the n-th prefix: 100, 500, 2000, then all.
PrefixLength(n) ==
    LET bounded == <<100, 500, 2000>>
    IN  IF n <= 3 /\ bounded[n] < Len(input.elements) THEN bounded[n]
        ELSE Len(input.elements)

\* The n-th run is the last: its output has the lines asked for, or its
\* prefix is the whole input.
RunSuffices(n, result) ==
    \/ count_output_lines(result) >= needed_lines
    \/ PrefixLength(n) = Len(input.elements)

\* C26: when no operator requires the full input, try_execute runs the
\* programme over the prefixes of 100, 500, 2000 and all elements in that
\* order, returns the result of the first run with enough lines or over the
\* whole input, makes at most four runs, and never passes the end of the
\* loop, whatever the length of the input.
C26_AdaptiveBatches ==
    /\ []((caller = "try_execute" /\ ~SomeRequiresFullInput)
             => /\ batch \in 0..4
                /\ stage = "batch" => batch <= Len(batch_sizes))
    /\ [][(caller = "try_execute" /\ stage = "compile" /\ stage' = "batch")
             => batch' = 1]_vars
    /\ [][(PreviewRunStarts /\ ~SomeRequiresFullInput)
             => /\ batch' = batch
                /\ ctx' = Array(SubSeq(input.elements, 1, PrefixLength(batch)),
                                input.level)]_vars
    /\ [][(caller = "try_execute" /\ stage = "run" /\ state = "Done"
           /\ ~SomeRequiresFullInput)
             => IF RunSuffices(batch, ctx)
                THEN /\ stage' = "returned"
                     /\ returned'.value = ctx
                     /\ returned'.error = parse_error
                     /\ ctx = ApplyPrefix(ops, Len(ops), RunInput).val
                ELSE /\ stage' = "batch"
                     /\ batch' = batch + 1
                     /\ batch < 4
                     /\ returned' = NoValue]_vars

\* An input of 2001 lines of which 2001 are asked for: the fourth run, over
\* the whole input, is the one whose result is returned.
C26_Witness ==
    /\ caller = "try_execute"
    /\ stage = "returned"
    /\ state = "Done"
    /\ ~SomeRequiresFullInput
    /\ batch = 4
    /\ Len(input.elements) = 2001
    /\ needed_lines = 2001
    /\ Len(returned.value.elements) = 2001


====
